---- MODULE Spec2Model ----
(***************************************************************************)
(* Model of the PlexWatchParty server: the Orchestrator (session state,    *)
(* offset computation, scheduled start / pause / auto-resume tasks) and    *)
(* the part of the WebSocketManager it talks to.                           *)
(*                                                                         *)
(* Scheduling follows asyncio: a coroutine runs without interruption until *)
(* it suspends.  No critical section of Orchestrator._lock or of           *)
(* WebSocketManager._lock contains an await, so neither lock is ever       *)
(* contended and `async with lock` never suspends; a coroutine suspends    *)
(* only in asyncio.sleep, in a fan-out that has at least one connected     *)
(* recipient, and inside the awaited call of the ws collaborator.  One     *)
(* action of the model is one such uninterrupted run.                      *)
(*                                                                         *)
(* The Orchestrator gets its ws manager by injection.  Spec runs it        *)
(* against any collaborator: each step is handed what the manager would    *)
(* answer (the authorized devices of a user, the set of connected users)   *)
(* for some state of its connections.  JoinSpec runs the joining           *)
(* operations, and StatusSpec the status reports of the clients, against   *)
(* the WebSocketManager itself.  SendSpec is the fan-out of the            *)
(* WebSocketManager down to the single websocket sends, SendFair the same  *)
(* under the fairness of the event loop.  PauseRuleSpec applies            *)
(* _schedule_next_pause to sessions of many durations and elapsed times.   *)
(* CommandSpec runs pauses and resumes for participants who registered     *)
(* different device lists, ShutdownSpec adds stop_background_tasks to the  *)
(* operations of Spec, and ShutdownFair is ShutdownSpec with time passing  *)
(* and the event loop running the start task.  ConnectSpec is the          *)
(* handshake of websocket_endpoint, RegisterSpec the register message with *)
(* raw client lists.  LockSpec keeps only the control skeleton of each     *)
(* coroutine of the Orchestrator: where it takes and releases the lock,    *)
(* where it touches the sessions and where it suspends.  NestSpec writes   *)
(* out what those skeletons await, the methods of the WebSocketManager and *)
(* of the Connection with the registry lock and the lock of the Connection.*)
(* AutoSpec lets sessions of several hours play with their timers firing   *)
(* on time or late; BlockSpec adds a websocket send that never returns,    *)
(* and BlockFair is BlockSpec with time passing and the event loop running *)
(* every task that is ready.  OrderSpec joins pause_session and            *)
(* resume_session to the send tasks of their fan-outs, which the event loop*)
(* starts in the order of their creation.  FrameSpec runs two sessions     *)
(* side by side.                                                           *)
(*                                                                         *)
(* Time is a wall clock counted in ticks, TicksPerMs ticks to the          *)
(* millisecond; int(timedelta.total_seconds() * 1000) truncates to whole   *)
(* milliseconds (exact arithmetic; float rounding is not modelled).        *)
(* Callers act during the first Horizon ticks; after that only the timers  *)
(* of the background tasks run, MaxJumps of them.                          *)
(***************************************************************************)
EXTENDS Integers, Sequences, FiniteSets, Bags, TLC

\* Python None in an Optional[datetime], Optional[int] or Optional[Task]
None == -1
\* no username in the frame of a call that has none
NoName == "-"

\* ---------------------------------------------------------------- bounds
MaxIntervals == 2
MaxJumps == 1
MaxInFlight == 1
Horizon == 3
TicksPerMs == 2
ProbeTicks == 4
MaxSends == 3
MaxConnects == 2
MaxClients == 2
MaxFrames == 2

\* ------------------------------------------------------ program constants
HOUR_MS == 3600000
THIRTY_MIN_MS == 1800000
PauseSeconds == 600

\* ------------------------------------------------------------ input sets
Users == {"alice", "bob"}
\* ids uuid4 hands out, and an id no session ever has
SessionIds == {"s1"}
UnknownIds == {"s9"}
Filenames == {"a.mp4"}
Durations == {9060000}
SchedTimes == {0, 3}
ClockSteps == {3}
ClientNames == {"tv", "phone"}

\* status reports: sessions s1 and s2 are created in this order; the file
\* names overlap (one is a prefix of the other) without being equal
StatusIds == {"s1", "s2"}
IdOrder == << "s1", "s2" >>
StatusFilenames == {"a.mp4", "a.mp4.part"}
Overlaps(f, g) == f \in StatusFilenames /\ g \in StatusFilenames
\* the pause rule: durations around the 30-minute margin after the first,
\* second and third hour, elapsed times around the hour boundaries (ms)
RuleDurations == {3600000, 5400000, 9000000, 9000001, 12600000, 12600001}
RuleElapsed == {0, 1, 3599999, 3600000, 7199999, 7200000}
RulePauses == {"none", "closed", "open"}

\* fan-out: a name that never has a connection, and what websocket.send_json
\* can do with one frame: complete, raise, or never return
Strangers == {"carol"}
NameOrder == << "alice", "bob", "carol" >>
Fates == {"ok", "raises", "blocks"}

\* the user whose reports are followed; client offsets can be negative
Reporters == {"alice"}
ReportedOffsets == {-5001, 0, 5001}
Thresholds == {5000}

Device(t, i) == [title |-> t, id |-> i]
\* device_obj = None in add_participant
NoDevice == Device("", "")

\* an entry of the `authorized_clients` payload of a register message: a
\* Device object, a mapping, or anything else (123); a title or an id that
\* is missing, None or empty is ""
Raw(kind, title, id) == [kind |-> kind, title |-> title, id |-> id]

RegLists ==
  { << Raw("dict", "", "d0"), Raw("dict", "tv", "d1"), Raw("dict", "tv", "d2") >> }

\* every payload of up to MaxClients entries
RawEntries ==
  {Raw(k, t, i) : k \in {"Device", "dict"}, t \in {"", "tv", "phone"},
                  i \in {"", "d1", "d2"}}
    \cup {Raw("other", "", "")}
RawLists == UNION {[1..n -> RawEntries] : n \in 0..MaxClients}

\* the handshake: the X-Username header ("" when absent or empty), the
\* Authorization header (absent, another scheme, "Bearer " with nothing
\* after it, a bearer token), and what the verifier does with the POST:
\* it answers with a status and a body, or the request fails or times out
HeaderNames == {"", "alice", "bob"}
AuthHeaders == {"absent", "basic", "bearer-empty", "bearer"}
Response(status_code, valid) == [status_code |-> status_code, valid |-> valid]
RequestFailed == Response(0, "-")
NotAsked == Response(-1, "-")
Answers ==
  {Response(c, v) : c \in {200, 401}, v \in {"true", "false", "absent", "not-json"}}
    \cup {RequestFailed}

\* the register payload of each user: their devices differ
OwnList(u) ==
  IF u = "alice"
  THEN << Raw("dict", "", "d0"), Raw("dict", "tv", "d1"), Raw("dict", "tv", "d2") >>
  ELSE << Raw("dict", "phone", "d3"), Raw("dict", "tv", "d4") >>

\* ------------------------------------------------------------- helpers
Range(s) == {s[i] : i \in DOMAIN s}

Max(a, b) == IF a >= b THEN a ELSE b

Abs(a) == IF a >= 0 THEN a ELSE -a

\* {} of Python, and dict updates
EmptyDict == [u \in {} |-> None]
Put(d, k, v) == [x \in (DOMAIN d) \cup {k} |-> IF x = k THEN v ELSE d[x]]
Del(d, k) == [x \in (DOMAIN d) \ {k} |-> d[x]]

\* int(x) of Python truncates toward zero
TruncDiv(a, b) == IF a >= 0 THEN a \div b ELSE -((-a) \div b)

\* int((t2 - t1).total_seconds() * 1000)
MsBetween(t2, t1) == TruncDiv(t2 - t1, TicksPerMs)

RECURSIVE SumSeq(_)
SumSeq(s) == IF s = <<>> THEN 0 ELSE Head(s) + SumSeq(Tail(s))

\* a reading of now() taken when the wall clock shows at least c
InHorizon(c) == c <= Horizon
Readings(c) == {c} \cup {c + d : d \in {e \in ClockSteps : InHorizon(c + e)}}

WSCommand(type, offset, filename, device) ==
  [type |-> type, offset |-> offset, filename |-> filename, device |-> device]

\* ------------------------------------------------ Orchestrator._calculate_offset
PausedMs(session, current_time) ==
  SumSeq([i \in DOMAIN session.pause_intervals |->
            LET p == session.pause_intervals[i] IN
            IF p.end # None THEN MsBetween(p.end, p.start)
                            ELSE MsBetween(current_time, p.start)])

\* _calculate_offset returning elapsed_ms - paused_ms as it is
CalculateOffsetUnclamped(session, current_time) ==
  IF session.start_time = None THEN 0
  ELSE MsBetween(current_time, session.start_time) - PausedMs(session, current_time)

CalculateOffset(session, current_time) ==
  IF session.start_time = None THEN 0
  ELSE Max(0, MsBetween(current_time, session.start_time)
                - PausedMs(session, current_time))

\* ------------------------------------------------------------ state
VARIABLES
  clock,        \* wall clock, in ticks
  connections,  \* WebSocketManager._connections: user -> Connection or None
  sessions,     \* Orchestrator._sessions: session id -> Session
  tasks,        \* asyncio tasks created by asyncio.create_task: id -> task
  calls,        \* bag of suspended direct calls (coroutine frames)
  out,          \* commands handed to the ws manager by the latest step
  njumps        \* number of timers that fired after the clock reached them

vars == << clock, connections, sessions, tasks, calls, njumps, out >>

Pending(t) == t.pc \in {"new", "sleep", "send"}

Session(filename, duration_ms, scheduled_start_time) ==
  [filename |-> filename, duration_ms |-> duration_ms,
   scheduled_start_time |-> scheduled_start_time, start_time |-> None,
   pause_intervals |-> <<>>, participants |-> EmptyDict, prequeue |-> <<>>,
   start_task |-> None, pause_task |-> None, resume_task |-> None]

\* asyncio.create_task: the start task computes its delay when it first
\* runs; a pause or auto-resume task goes straight to asyncio.sleep(delay)
\* when it first runs, which is taken to be the instant t of its creation
StartTask(sid) == [kind |-> "start", sid |-> sid, pc |-> "new", wake |-> None]
SleepTask(kind, sid, t, delay) ==
  [kind |-> kind, sid |-> sid, pc |-> "sleep", wake |-> t + delay]

NewTaskId(T) == CHOOSE i \in 1..(Cardinality(DOMAIN T) + 1) : i \notin DOMAIN T

\* tasks that finished and that no session handle references are garbage
Handles(S) ==
  UNION {{S[s].start_task, S[s].pause_task, S[s].resume_task} : s \in DOMAIN S}

Collect(S, T) ==
  [i \in {j \in DOMAIN T : Pending(T[j]) \/ j \in Handles(S)} |-> T[i]]

LastOpen(session) ==
  /\ session.pause_intervals # <<>>
  /\ session.pause_intervals[Len(session.pause_intervals)].end = None


Init ==
  /\ clock = 0
  /\ connections = EmptyDict
  /\ sessions = EmptyDict
  /\ tasks = EmptyDict
  /\ calls = EmptyBag
  /\ njumps = 0
  /\ out = EmptyDict


\* =================================================== WebSocketManager
\* set_authorized_clients keeping every Device or mapping that has a title
NormalizeTitled(clients) ==
  LET kept == SelectSeq(clients, LAMBDA c : c.kind \in {"Device", "dict"} /\ c.title # "")
  IN [i \in DOMAIN kept |-> Device(kept[i].title, kept[i].id)]

\* Connection.set_authorized_clients: a Device is kept as it is and a
\* mapping as Device.model_validate makes it, when title and id are there;
\* every other entry is skipped.  An empty payload gives the empty list
Normalize(clients) ==
  LET kept == SelectSeq(clients, LAMBDA c :
                c.kind \in {"Device", "dict"} /\ c.title # "" /\ c.id # "")
  IN [i \in DOMAIN kept |-> Device(kept[i].title, kept[i].id)]

\* WebSocketManager.get_authorized_clients
GetAuthorizedClients(C, username) ==
  IF username \in DOMAIN C THEN C[username].authorized_clients ELSE <<>>

\* websocket_endpoint after accept: Connection(...) and ws_manager.add
WsAdd(u) ==
  /\ connections' = Put(connections, u, [authorized_clients |-> <<>>])
  /\ out' = EmptyDict
  /\ UNCHANGED << clock, sessions, tasks, calls, njumps >>

\* websocket_endpoint on WebSocketDisconnect: ws_manager.remove
WsRemove(u) ==
  /\ u \in DOMAIN connections
  /\ connections' = Del(connections, u)
  /\ out' = EmptyDict
  /\ UNCHANGED << clock, sessions, tasks, calls, njumps >>

\* websocket_endpoint on a register message
Register(u, clients) ==
  /\ u \in DOMAIN connections
  /\ connections' = [connections EXCEPT ![u].authorized_clients = Normalize(clients)]
  /\ out' = EmptyDict
  /\ UNCHANGED << clock, sessions, tasks, calls, njumps >>


\* WebSocketManager._connections.keys(): who has a connection
Live(C) == DOMAIN C

\* what get_authorized_clients can answer, and who can be connected
AuthAnswers == {<<>>} \cup {Normalize(l) : l \in RegLists}
LiveSets == {{}, Users}

\* ========================================================= Orchestrator
\* what one uninterrupted run of an operation leaves behind
Eff(result, S, T, cmds, susp, now) ==
  [result |-> result, S |-> S, T |-> T, out |-> cmds, susp |-> susp, now |-> now]

\* ws.broadcast_many / ws.broadcast suspend the caller only when a send
\* task was created, i.e. when some recipient has a connection
Suspends(live, cmd_map) == (DOMAIN cmd_map) \cap live # {}

\* _run_pause swallowing the CancelledError of its sleep and going on:
\* a pause task cancelled in its sleep is due at once
CancelTaskWakesPause(T, id) ==
  IF id = None \/ id \notin DOMAIN T THEN T
  ELSE IF ~Pending(T[id]) THEN T
  ELSE IF T[id].pc = "new" THEN [T EXCEPT ![id].pc = "cancelled"]
  ELSE IF T[id].kind = "resume" THEN [T EXCEPT ![id].pc = "done"]
  ELSE IF T[id].kind = "pause" /\ T[id].pc = "sleep" THEN [T EXCEPT ![id].wake = 0]
  ELSE [T EXCEPT ![id].pc = "cancelled"]

\* task.cancel(): a finished task is left alone; a task that has not run
\* yet never runs; otherwise CancelledError is raised at the await where
\* the task is suspended: _run_start catches nothing, _run_pause catches
\* it around its sleep only, _auto_resume around its whole body
CancelTask(T, id) ==
  IF id = None \/ id \notin DOMAIN T THEN T
  ELSE IF ~Pending(T[id]) THEN T
  ELSE IF T[id].pc = "new" THEN [T EXCEPT ![id].pc = "cancelled"]
  ELSE IF T[id].kind = "resume" THEN [T EXCEPT ![id].pc = "done"]
  ELSE IF T[id].kind = "pause" /\ T[id].pc = "sleep" THEN [T EXCEPT ![id].pc = "done"]
  ELSE [T EXCEPT ![id].pc = "cancelled"]

\* _schedule_next_pause without the `if next_k == 1` of line 108
ScheduleNextPauseNoBypass(S, T, sid, t) ==
  IF sid \notin DOMAIN S THEN [S |-> S, T |-> T]
  ELSE
    LET session == S[sid]
        elapsed_ms == CalculateOffset(session, t)
        next_k == elapsed_ms \div HOUR_MS + 1
        next_target_ms == next_k * HOUR_MS
        should_schedule == session.duration_ms - next_target_ms > THIRTY_MIN_MS
        to_target_ms == Max(0, next_target_ms - elapsed_ms)
        id == NewTaskId(T)
    IN IF LastOpen(session) \/ ~should_schedule THEN [S |-> S, T |-> T]
       ELSE [S |-> [S EXCEPT ![sid].pause_task = id],
             T |-> T @@ (id :> SleepTask("pause", sid, t, to_target_ms * TicksPerMs))]

\* _schedule_next_pause without the paused check of lines 102-104
ScheduleNextPauseWhilePaused(S, T, sid, t) ==
  IF sid \notin DOMAIN S THEN [S |-> S, T |-> T]
  ELSE
    LET session == S[sid]
        elapsed_ms == CalculateOffset(session, t)
        next_k == elapsed_ms \div HOUR_MS + 1
        next_target_ms == next_k * HOUR_MS
        should_schedule ==
          IF next_k = 1 THEN TRUE
          ELSE session.duration_ms - next_target_ms > THIRTY_MIN_MS
        to_target_ms == Max(0, next_target_ms - elapsed_ms)
        id == NewTaskId(T)
    IN IF ~should_schedule THEN [S |-> S, T |-> T]
       ELSE [S |-> [S EXCEPT ![sid].pause_task = id],
             T |-> T @@ (id :> SleepTask("pause", sid, t, to_target_ms * TicksPerMs))]

\* _schedule_next_pause arming a pause when exactly 30 minutes are left
ScheduleNextPauseAtMargin(S, T, sid, t) ==
  IF sid \notin DOMAIN S THEN [S |-> S, T |-> T]
  ELSE
    LET session == S[sid]
        elapsed_ms == CalculateOffset(session, t)
        next_k == elapsed_ms \div HOUR_MS + 1
        next_target_ms == next_k * HOUR_MS
        should_schedule ==
          IF next_k = 1 THEN TRUE
          ELSE session.duration_ms - next_target_ms >= THIRTY_MIN_MS
        to_target_ms == Max(0, next_target_ms - elapsed_ms)
        id == NewTaskId(T)
    IN IF LastOpen(session) \/ ~should_schedule THEN [S |-> S, T |-> T]
       ELSE [S |-> [S EXCEPT ![sid].pause_task = id],
             T |-> T @@ (id :> SleepTask("pause", sid, t, to_target_ms * TicksPerMs))]

\* Orchestrator._schedule_next_pause, now() read as t
ScheduleNextPause(S, T, sid, t) ==
  IF sid \notin DOMAIN S THEN [S |-> S, T |-> T]
  ELSE
    LET session == S[sid]
        elapsed_ms == CalculateOffset(session, t)
        next_k == elapsed_ms \div HOUR_MS + 1
        next_target_ms == next_k * HOUR_MS
        should_schedule ==
          IF next_k = 1 THEN TRUE
          ELSE session.duration_ms - next_target_ms > THIRTY_MIN_MS
        to_target_ms == Max(0, next_target_ms - elapsed_ms)
        id == NewTaskId(T)
    IN IF LastOpen(session) \/ ~should_schedule THEN [S |-> S, T |-> T]
       ELSE [S |-> [S EXCEPT ![sid].pause_task = id],
             T |-> T @@ (id :> SleepTask("pause", sid, t, to_target_ms * TicksPerMs))]

\* Orchestrator.start_session, lines 201-232, up to its first suspension:
\* start_time = now() read as tb, the prequeue captured and cleared, the
\* PLAY fan-out and, when that does not suspend, _schedule_next_pause with
\* now() read as tc
StartFanOut(S, T, live, sid, tb, tc) ==
  LET session == S[sid]
      prequeue_users == Range(session.prequeue)
      S1 == [S EXCEPT ![sid].start_time = tb, ![sid].prequeue = <<>>]
      participant_devices ==
        [u \in (DOMAIN session.participants) \cap prequeue_users |->
           session.participants[u].device]
      cmd_map == [u \in DOMAIN participant_devices |->
                    WSCommand("play", 0, session.filename, participant_devices[u])]
      sp == ScheduleNextPause(S1, T, sid, tc)
  IN IF Suspends(live, cmd_map) THEN Eff("-", S1, T, cmd_map, TRUE, tb)
     ELSE Eff("-", sp.S, sp.T, cmd_map, FALSE, tc)

\* start_session without the `if session.start_time: return` of line 196
StartSessionResend(S, T, live, sid, ta, tb, tc) ==
  IF sid \notin DOMAIN S THEN Eff("KeyError", S, T, EmptyDict, FALSE, clock)
  ELSE IF S[sid].scheduled_start_time > ta
    THEN Eff("ValueError", S, T, EmptyDict, FALSE, ta)
  ELSE StartFanOut(S, T, live, sid, tb, tc)

\* start_session without the schedule check of lines 199-200
StartSessionEarly(S, T, live, sid, ta, tb, tc) ==
  IF sid \notin DOMAIN S THEN Eff("KeyError", S, T, EmptyDict, FALSE, clock)
  ELSE IF S[sid].start_time # None THEN Eff("-", S, T, EmptyDict, FALSE, clock)
  ELSE StartFanOut(S, T, live, sid, tb, tc)

\* start_session clearing the prequeue before the schedule check
StartSessionClearsFirst(S, T, live, sid, ta, tb, tc) ==
  IF sid \notin DOMAIN S THEN Eff("KeyError", S, T, EmptyDict, FALSE, clock)
  ELSE IF S[sid].start_time # None THEN Eff("-", S, T, EmptyDict, FALSE, clock)
  ELSE IF S[sid].scheduled_start_time > ta
    THEN Eff("ValueError", [S EXCEPT ![sid].prequeue = <<>>], T, EmptyDict, FALSE, ta)
  ELSE StartFanOut(S, T, live, sid, tb, tc)

\* Orchestrator.start_session up to its first suspension; now() is read as
\* ta in the schedule check (line 199)
StartSession(S, T, live, sid, ta, tb, tc) ==
  IF sid \notin DOMAIN S THEN Eff("KeyError", S, T, EmptyDict, FALSE, clock)
  ELSE IF S[sid].start_time # None THEN Eff("-", S, T, EmptyDict, FALSE, clock)
  ELSE IF S[sid].scheduled_start_time > ta
    THEN Eff("ValueError", S, T, EmptyDict, FALSE, ta)
  ELSE StartFanOut(S, T, live, sid, tb, tc)

\* pause_session leaving the previous auto-resume task alone
PauseSessionKeepsPrev(S, T, live, sid, t) ==
  IF sid \notin DOMAIN S THEN Eff("KeyError", S, T, EmptyDict, FALSE, clock)
  ELSE
    LET session == S[sid]
        id == NewTaskId(T)
        cmd_map == [u \in DOMAIN session.participants |->
                      WSCommand("pause", None, session.filename,
                                session.participants[u].device)]
    IN Eff("-",
           [S EXCEPT ![sid].pause_intervals = Append(@, [start |-> t, end |-> None]),
                     ![sid].resume_task = id],
           T @@ (id :> SleepTask("resume", sid, t, PauseSeconds * 1000 * TicksPerMs)),
           cmd_map, Suspends(live, cmd_map), t)

\* pause_session putting one participant's device into every command
PauseSessionOneDevice(S, T, live, sid, t) ==
  IF sid \notin DOMAIN S THEN Eff("KeyError", S, T, EmptyDict, FALSE, clock)
  ELSE
    LET session == S[sid]
        id == NewTaskId(T)
        T1 == T @@ (id :> SleepTask("resume", sid, t, PauseSeconds * 1000 * TicksPerMs))
        dev == IF session.participants = EmptyDict THEN NoDevice
               ELSE session.participants[
                      CHOOSE u \in DOMAIN session.participants : TRUE].device
        cmd_map == [u \in DOMAIN session.participants |->
                      WSCommand("pause", None, session.filename, dev)]
    IN Eff("-",
           [S EXCEPT ![sid].pause_intervals = Append(@, [start |-> t, end |-> None]),
                     ![sid].resume_task = id],
           CancelTask(T1, session.resume_task), cmd_map, Suspends(live, cmd_map), t)

\* pause_session reopening the interval the last resume closed
PauseSessionReopens(S, T, live, sid, t) ==
  IF sid \notin DOMAIN S THEN Eff("KeyError", S, T, EmptyDict, FALSE, clock)
  ELSE
    LET session == S[sid]
        n == Len(session.pause_intervals)
        id == NewTaskId(T)
        T1 == T @@ (id :> SleepTask("resume", sid, t, PauseSeconds * 1000 * TicksPerMs))
        cmd_map == [u \in DOMAIN session.participants |->
                      WSCommand("pause", None, session.filename,
                                session.participants[u].device)]
    IN Eff("-",
           [S EXCEPT ![sid].pause_intervals =
                       IF n > 0 /\ ~LastOpen(session)
                       THEN [@ EXCEPT ![n].end = None]
                       ELSE Append(@, [start |-> t, end |-> None]),
                     ![sid].resume_task = id],
           CancelTask(T1, session.resume_task), cmd_map, Suspends(live, cmd_map), t)

\* pause_session sending its PAUSE to the participants of every session
PauseSessionEverySession(S, T, live, sid, t) ==
  IF sid \notin DOMAIN S THEN Eff("KeyError", S, T, EmptyDict, FALSE, clock)
  ELSE
    LET session == S[sid]
        everyone == UNION {DOMAIN S[x].participants : x \in DOMAIN S}
        device(u) == LET x == CHOOSE y \in DOMAIN S : u \in DOMAIN S[y].participants
                     IN S[x].participants[u].device
        prev_resume == session.resume_task
        id == NewTaskId(T)
        T1 == T @@ (id :> SleepTask("resume", sid, t, PauseSeconds * 1000 * TicksPerMs))
        cmd_map == [u \in everyone |->
                      WSCommand("pause", None, session.filename, device(u))]
    IN Eff("-",
           [S EXCEPT ![sid].pause_intervals = Append(@, [start |-> t, end |-> None]),
                     ![sid].resume_task = id],
           CancelTask(T1, prev_resume), cmd_map, Suspends(live, cmd_map), t)

\* Orchestrator.pause_session up to its fan-out; now() is read as t
PauseSession(S, T, live, sid, t) ==
  IF sid \notin DOMAIN S THEN Eff("KeyError", S, T, EmptyDict, FALSE, clock)
  ELSE
    LET session == S[sid]
        participant_devices ==
          [u \in DOMAIN session.participants |-> session.participants[u].device]
        prev_resume == session.resume_task
        id == NewTaskId(T)
        T1 == T @@ (id :> SleepTask("resume", sid, t, PauseSeconds * 1000 * TicksPerMs))
        cmd_map == [u \in DOMAIN participant_devices |->
                      WSCommand("pause", None, session.filename, participant_devices[u])]
    IN Eff("-",
           [S EXCEPT ![sid].pause_intervals = Append(@, [start |-> t, end |-> None]),
                     ![sid].resume_task = id],
           CancelTask(T1, prev_resume), cmd_map, Suspends(live, cmd_map), t)

\* resume_session computing the offset before it closes the interval
ResumeFanOutOffsetFirst(S, T, live, sid, ta, tb, tc) ==
  LET n == Len(S[sid].pause_intervals)
      S1 == [S EXCEPT ![sid].pause_intervals[n].end = ta]
      session == S1[sid]
      server_offset == CalculateOffset(S[sid], tb)
      cmd_map == [u \in DOMAIN session.participants |->
                    WSCommand("play", server_offset, session.filename,
                              session.participants[u].device)]
      sp == ScheduleNextPause(S1, T, sid, tc)
  IN IF Suspends(live, cmd_map) THEN Eff("-", S1, T, cmd_map, TRUE, tb)
     ELSE Eff("-", sp.S, sp.T, cmd_map, FALSE, tc)

\* Orchestrator.resume_session, lines 305-329, up to its first suspension:
\* last.end = now() read as ta, the offset at now() read as tb, the PLAY
\* fan-out and, when that does not suspend, _schedule_next_pause at tc
ResumeFanOut(S, T, live, sid, ta, tb, tc) ==
  LET n == Len(S[sid].pause_intervals)
      S1 == [S EXCEPT ![sid].pause_intervals[n].end = ta]
      session == S1[sid]
      server_offset == CalculateOffset(session, tb)
      participant_devices ==
        [u \in DOMAIN session.participants |-> session.participants[u].device]
      cmd_map == [u \in DOMAIN participant_devices |->
                    WSCommand("play", server_offset, session.filename,
                              participant_devices[u])]
      sp == ScheduleNextPause(S1, T, sid, tc)
  IN IF Suspends(live, cmd_map) THEN Eff("-", S1, T, cmd_map, TRUE, tb)
     ELSE Eff("-", sp.S, sp.T, cmd_map, FALSE, tc)

\* resume_session returning quietly when the session is missing, the way
\* _run_start and _schedule_next_pause do
ResumeSessionSilent(S, T, live, sid, ta, tb, tc) ==
  IF sid \notin DOMAIN S THEN Eff("-", S, T, EmptyDict, FALSE, clock)
  ELSE IF ~LastOpen(S[sid]) THEN Eff("-", S, T, EmptyDict, FALSE, clock)
  ELSE ResumeFanOut(S, T, live, sid, ta, tb, tc)

\* resume_session without the `if last.end is not None: return` of line 302
ResumeSessionRecloses(S, T, live, sid, ta, tb, tc) ==
  IF sid \notin DOMAIN S THEN Eff("KeyError", S, T, EmptyDict, FALSE, clock)
  ELSE IF S[sid].pause_intervals = <<>> THEN Eff("-", S, T, EmptyDict, FALSE, clock)
  ELSE ResumeFanOut(S, T, live, sid, ta, tb, tc)

\* Orchestrator.resume_session up to its first suspension
ResumeSession(S, T, live, sid, ta, tb, tc) ==
  IF sid \notin DOMAIN S THEN Eff("KeyError", S, T, EmptyDict, FALSE, clock)
  ELSE IF ~LastOpen(S[sid]) THEN Eff("-", S, T, EmptyDict, FALSE, clock)
  ELSE ResumeFanOut(S, T, live, sid, ta, tb, tc)

\* the device lookup falling back to the user's first device
ResolveDeviceFallback(clients, client_name) ==
  LET hits == SelectSeq(clients, LAMBDA device : device.title = client_name) IN
  IF hits # <<>> THEN Head(hits)
  ELSE IF clients # <<>> THEN Head(clients) ELSE NoDevice

\* the first authorized device whose title is client_name, or None
ResolveDevice(clients, client_name) ==
  LET hits == SelectSeq(clients, LAMBDA device : device.title = client_name) IN
  IF hits = <<>> THEN NoDevice ELSE Head(hits)

\* add_participant, lines 141-156: the session check and the device
\* lookup, clients being the answer of ws.get_authorized_clients
AddLookup(S, sid, clients, client_name) ==
  LET device_obj == ResolveDevice(clients, client_name) IN
  IF sid \notin DOMAIN S THEN [result |-> "KeyError", device |-> NoDevice]
  ELSE IF device_obj = NoDevice THEN [result |-> "ValueError", device |-> NoDevice]
  ELSE [result |-> "-", device |-> device_obj]

\* add_participant queueing the joiner whether or not the session started
AddStoreAlwaysQueues(S, T, sid, username, device_obj, t) ==
  IF sid \notin DOMAIN S THEN Eff("KeyError", S, T, EmptyDict, FALSE, t)
  ELSE
    LET participant == [username |-> username, device |-> device_obj]
        S1 == [S EXCEPT ![sid].participants = Put(@, username, participant),
                        ![sid].prequeue =
                          IF username \in Range(@) THEN @ ELSE Append(@, username)]
        session == S1[sid]
    IN IF session.start_time # None
       THEN Eff("-", S1, T,
                Put(EmptyDict, username,
                    WSCommand("play", CalculateOffset(session, t),
                              session.filename, participant.device)),
                FALSE, t)
       ELSE Eff("-", S1, T, EmptyDict, FALSE, t)

\* add_participant catching the joiner up from the beginning of the file
AddStoreFromStart(S, T, sid, username, device_obj, t) ==
  IF sid \notin DOMAIN S THEN Eff("KeyError", S, T, EmptyDict, FALSE, t)
  ELSE
    LET participant == [username |-> username, device |-> device_obj]
        S1 == [S EXCEPT ![sid].participants = Put(@, username, participant)]
        session == S1[sid]
    IN IF session.start_time # None
       THEN Eff("-", S1, T,
                Put(EmptyDict, username,
                    WSCommand("play", 0, session.filename, participant.device)),
                FALSE, t)
       ELSE Eff("-", [S1 EXCEPT ![sid].prequeue =
                        IF username \in Range(@) THEN @ ELSE Append(@, username)],
                T, EmptyDict, FALSE, t)

\* add_participant storing the joiner without queueing the username
AddStoreNeverQueues(S, T, sid, username, device_obj, t) ==
  IF sid \notin DOMAIN S THEN Eff("KeyError", S, T, EmptyDict, FALSE, t)
  ELSE
    LET participant == [username |-> username, device |-> device_obj]
        S1 == [S EXCEPT ![sid].participants = Put(@, username, participant)]
        session == S1[sid]
    IN IF session.start_time # None
       THEN Eff("-", S1, T,
                Put(EmptyDict, username,
                    WSCommand("play", CalculateOffset(session, t),
                              session.filename, participant.device)),
                FALSE, t)
       ELSE Eff("-", S1, T, EmptyDict, FALSE, t)

\* add_participant, lines 160-182: the Participant is built (join_time =
\* now(), never read again, is left out), stored under the lock, and
\* either caught up with a PLAY (now() read as t) or put in the prequeue
AddStoreEffect(S, T, sid, username, device_obj, t) ==
  IF sid \notin DOMAIN S THEN Eff("KeyError", S, T, EmptyDict, FALSE, t)
  ELSE
    LET participant == [username |-> username, device |-> device_obj]
        S1 == [S EXCEPT ![sid].participants = Put(@, username, participant)]
        session == S1[sid]
    IN IF session.start_time # None
       THEN Eff("-", S1, T,
                Put(EmptyDict, username,
                    WSCommand("play", CalculateOffset(session, t),
                              session.filename, participant.device)),
                FALSE, t)
       ELSE Eff("-", [S1 EXCEPT ![sid].prequeue =
                        IF username \in Range(@) THEN @ ELSE Append(@, username)],
                T, EmptyDict, FALSE, t)

\* the handles of a session after the sweep
Swept(session) ==
  [session EXCEPT !.start_task = None, !.pause_task = None, !.resume_task = None]

\* stop_background_tasks cancelling the tasks and keeping the handles
StopBackgroundTasksKeepsHandles(S, T) ==
  Eff("-", S,
      [i \in DOMAIN T |-> IF i \in Handles(S) THEN CancelTask(T, i)[i] ELSE T[i]],
      EmptyDict, FALSE, clock)

\* Orchestrator.stop_background_tasks: under the lock, for every session
\* and each of its three handles, t.cancel() when the handle is set, then
\* the handle is set to None; nothing is awaited
StopBackgroundTasks(S, T) ==
  Eff("-", [sid \in DOMAIN S |-> Swept(S[sid])],
      [i \in DOMAIN T |-> IF i \in Handles(S) THEN CancelTask(T, i)[i] ELSE T[i]],
      EmptyDict, FALSE, clock)

\* ------------------------------------ Orchestrator.handle_client_status_update
\* list(self._sessions.values()): the sessions in the order of their creation
SessionList(S) == SelectSeq(IdOrder, LAMBDA i : i \in DOMAIN S)

\* the session filter matching any overlapping file name
SessionMatchesOverlap(session, username, filename) ==
  /\ Overlaps(session.filename, filename)
  /\ username \in DOMAIN session.participants

\* the two `continue` of the loop, lines 362-365
SessionMatches(session, username, filename) ==
  /\ session.filename = filename
  /\ username \in DOMAIN session.participants

\* the comparison sending a SEEK at the threshold already
NeedsSeekAtThreshold(adjusted_offset, server_offset, threshold_ms) ==
  Abs(adjusted_offset - server_offset) >= threshold_ms

\* abs(int(adjusted_offset) - int(server_offset)) > int(threshold_ms)
NeedsSeek(adjusted_offset, server_offset, threshold_ms) ==
  Abs(adjusted_offset - server_offset) > threshold_ms

\* one status report: who reports what, received when, and the threshold
Report(username, filename, offset, receive_time, threshold_ms) ==
  [username |-> username, filename |-> filename, offset |-> offset,
   receive_time |-> receive_time, threshold_ms |-> threshold_ms]

\* one SEEK handed to ws.broadcast
Seek(to, sid, cmd) == [to |-> to, sid |-> sid, cmd |-> cmd]

\* what one uninterrupted run of the loop leaves behind: the SEEKs handed
\* to ws.broadcast, the sessions still to visit, the adjusted offset so far
Ran(sent, rest, adjusted, susp, now) ==
  [sent |-> sent, rest |-> rest, adjusted |-> adjusted, susp |-> susp, now |-> now]

\* the loop of lines 361-381 over the snapshot ids from the clock reading t
\* on: every way it can run until ws.broadcast suspends it (the reporter
\* has a connection, so a send is awaited) or the snapshot is exhausted.
\* now() is read once for server_offset and once more for delta_ms
RECURSIVE StatusRuns(_, _, _, _, _, _, _)
StatusRuns(S, live, r, ids, t, adjusted, sent) ==
  IF ids = <<>> THEN {Ran(sent, <<>>, adjusted, FALSE, t)}
  ELSE
    LET sid == Head(ids)
        session == S[sid]
    IN IF ~SessionMatches(session, r.username, r.filename)
       THEN StatusRuns(S, live, r, Tail(ids), t, adjusted, sent)
       ELSE UNION { UNION {
              LET server_offset == CalculateOffset(session, t1)
                  delta_ms == MsBetween(t2, r.receive_time)
                  adjusted_offset == r.offset + delta_ms
                  cmd == WSCommand("seek", server_offset, session.filename,
                                   session.participants[r.username].device)
                  sent1 == Append(sent, Seek(r.username, sid, cmd))
              IN IF ~NeedsSeek(adjusted_offset, server_offset, r.threshold_ms)
                 THEN StatusRuns(S, live, r, Tail(ids), t2, adjusted_offset, sent)
                 ELSE IF r.username \in live
                 THEN {Ran(sent1, Tail(ids), adjusted_offset, TRUE, t2)}
                 ELSE StatusRuns(S, live, r, Tail(ids), t2, adjusted_offset, sent1)
              : t2 \in Readings(t1) } : t1 \in Readings(t) }

\* handle_client_status_update up to its first suspension: the snapshot of
\* the sessions, the `username is None` return, then the loop
HandleClientStatusUpdate(S, live, r, t) ==
  IF r.username = NoName THEN {Ran(<<>>, <<>>, None, FALSE, t)}
  ELSE StatusRuns(S, live, r, SessionList(S), t, None, <<>>)

\* --------------------------------------------------------- direct calls
\* the frame of a direct call that is suspended: in the ws lookup of
\* add_participant ("store" comes next) or in a fan-out ("send")
Frame(op, pc, sid, username, device) ==
  [op |-> op, pc |-> pc, sid |-> sid, username |-> username, device |-> device]

Push(f) == calls (+) SetToBag({f})
Pop(f) == calls (-) SetToBag({f})
Room == BagCardinality(calls) < MaxInFlight
Frames == BagToSet(calls)

\* Orchestrator.create_session: runs to its return without suspending;
\* str(uuid.uuid4()) is an id no session has
CreateSession(sid, filename, duration_ms, scheduled_start_time) ==
  /\ InHorizon(clock)
  /\ sid \notin DOMAIN sessions
  /\ LET id == NewTaskId(tasks)
         session == Session(filename, duration_ms, scheduled_start_time)
     IN /\ sessions' = sessions @@ (sid :> [session EXCEPT !.start_task = id])
        /\ tasks' = tasks @@ (id :> StartTask(sid))
  /\ out' = EmptyDict
  /\ UNCHANGED << clock, connections, calls, njumps >>

\* a direct call of start_session
StartSessionCall(sid, live) ==
  /\ InHorizon(clock)
  /\ \E ta \in Readings(clock) : \E tb \in Readings(ta) : \E tc \in Readings(tb) :
       LET e == StartSession(sessions, tasks, live, sid, ta, tb, tc) IN
       /\ e.susp => Room
       /\ sessions' = e.S
       /\ tasks' = Collect(e.S, e.T)
       /\ clock' = e.now
       /\ out' = e.out
       /\ calls' = IF e.susp
                   THEN Push(Frame("start_session", "send", sid, NoName, NoDevice))
                   ELSE calls
  /\ UNCHANGED << connections, njumps >>

\* a direct call of pause_session; nothing follows its fan-out
PauseSessionCall(sid, live) ==
  /\ InHorizon(clock)
  /\ sid \in DOMAIN sessions => Len(sessions[sid].pause_intervals) < MaxIntervals
  /\ \E t \in Readings(clock) :
       LET e == PauseSession(sessions, tasks, live, sid, t) IN
       /\ sessions' = e.S
       /\ tasks' = Collect(e.S, e.T)
       /\ clock' = e.now
       /\ out' = e.out
  /\ UNCHANGED << connections, calls, njumps >>

\* a direct call of resume_session
ResumeSessionCall(sid, live) ==
  /\ InHorizon(clock)
  /\ \E ta \in Readings(clock) : \E tb \in Readings(ta) : \E tc \in Readings(tb) :
       LET e == ResumeSession(sessions, tasks, live, sid, ta, tb, tc) IN
       /\ e.susp => Room
       /\ sessions' = e.S
       /\ tasks' = Collect(e.S, e.T)
       /\ clock' = e.now
       /\ out' = e.out
       /\ calls' = IF e.susp
                   THEN Push(Frame("resume_session", "send", sid, NoName, NoDevice))
                   ELSE calls
  /\ UNCHANGED << connections, njumps >>

\* start_session / resume_session after the fan-out returned:
\* _schedule_next_pause, then return
ContinueCall(f) ==
  /\ f \in Frames
  /\ f.pc = "send"
  /\ \E t \in Readings(clock) :
       LET sp == ScheduleNextPause(sessions, tasks, f.sid, t) IN
       /\ sessions' = sp.S
       /\ tasks' = Collect(sp.S, sp.T)
       /\ clock' = t
  /\ calls' = Pop(f)
  /\ out' = EmptyDict
  /\ UNCHANGED << connections, njumps >>

\* add_participant, lines 141-158; the ws collaborator hands its answer
\* over after a suspension, so the rest of the call runs later
AddParticipantCall(sid, username, client_name, clients) ==
  /\ InHorizon(clock)
  /\ LET e == AddLookup(sessions, sid, clients, client_name) IN
     IF e.result # "-" THEN calls' = calls
     ELSE /\ Room
          /\ calls' = Push(Frame("add_participant", "store", sid, username, e.device))
  /\ out' = EmptyDict
  /\ UNCHANGED << clock, connections, sessions, tasks, njumps >>

\* add_participant, lines 160-182
AddStore(f) ==
  /\ f \in Frames
  /\ f.pc = "store"
  /\ \E t \in Readings(clock) :
       LET e == AddStoreEffect(sessions, tasks, f.sid, f.username, f.device, t) IN
       /\ sessions' = e.S
       /\ clock' = e.now
       /\ out' = e.out
  /\ calls' = Pop(f)
  /\ UNCHANGED << connections, tasks, njumps >>

\* lifespan at shutdown, or any caller: stop_background_tasks
StopBackgroundTasksCall ==
  /\ LET e == StopBackgroundTasks(sessions, tasks) IN
     /\ sessions' = e.S
     /\ tasks' = Collect(e.S, e.T)
     /\ out' = e.out
  /\ UNCHANGED << clock, connections, calls, njumps >>

\* ------------------------------------------------------ background tasks
IsTask(tid, kind, pc) ==
  /\ tid \in DOMAIN tasks
  /\ tasks[tid].kind = kind
  /\ tasks[tid].pc = pc

Sleeping == {i \in DOMAIN tasks : tasks[i].pc = "sleep"}

\* asyncio runs the timer with the earliest deadline first.  A timer that
\* is due fires as it is; to a deadline beyond the horizon the clock is
\* first advanced, which counts as a jump
Fires(tid) ==
  /\ tid \in Sleeping
  /\ \A i \in Sleeping : tasks[tid].wake <= tasks[i].wake
  /\ IF tasks[tid].wake <= clock THEN njumps' = njumps
     ELSE /\ ~InHorizon(tasks[tid].wake)
          /\ njumps < MaxJumps
          /\ njumps' = njumps + 1

\* where a task stands after the operation it called ran up to e
AfterCall(e, tid) ==
  Collect(e.S, [e.T EXCEPT ![tid].pc = IF e.susp THEN "send" ELSE "done"])

\* the task calls start_session at t0; `except Exception` swallows its errors
TaskStartSession(tid, live, t0) ==
  \E ta \in Readings(t0) : \E tb \in Readings(ta) : \E tc \in Readings(tb) :
    LET sid == tasks[tid].sid
        e == StartSession(sessions, tasks, live, sid, ta, tb, tc) IN
    /\ sessions' = e.S
    /\ tasks' = AfterCall(e, tid)
    /\ clock' = Max(e.now, t0)
    /\ out' = e.out

\* _run_start sleeping one tick less than the time left
StartDelayShort(session, t) == session.scheduled_start_time - t - 1

\* delay = (session.scheduled_start_time - now()).total_seconds(), line 65
StartDelay(session, t) == session.scheduled_start_time - t

\* create_session._run_start, first run: lines 61-71
RunStart(tid, live) ==
  /\ IsTask(tid, "start", "new")
  /\ \E t \in Readings(clock) :
       LET delay == StartDelay(sessions[tasks[tid].sid], t) IN
       IF delay > 0
       THEN /\ tasks' = [tasks EXCEPT ![tid].pc = "sleep", ![tid].wake = t + delay]
            /\ clock' = t
            /\ out' = EmptyDict
            /\ UNCHANGED sessions
       ELSE TaskStartSession(tid, live, t)
  /\ UNCHANGED << connections, calls, njumps >>

\* create_session._run_start, after its sleep: lines 70-73
WakeStart(tid, live) ==
  /\ IsTask(tid, "start", "sleep")
  /\ Fires(tid)
  /\ TaskStartSession(tid, live, Max(clock, tasks[tid].wake))
  /\ UNCHANGED << connections, calls >>

\* _schedule_next_pause._run_pause, after its sleep: lines 123-126
WakePause(tid, live) ==
  /\ IsTask(tid, "pause", "sleep")
  /\ Fires(tid)
  /\ Len(sessions[tasks[tid].sid].pause_intervals) < MaxIntervals
  /\ \E t \in Readings(Max(clock, tasks[tid].wake)) :
       LET e == PauseSession(sessions, tasks, live, tasks[tid].sid, t) IN
       /\ sessions' = e.S
       /\ tasks' = AfterCall(e, tid)
       /\ clock' = e.now
       /\ out' = e.out
  /\ UNCHANGED << connections, calls >>

\* pause_session._auto_resume, after its sleep: lines 253-256
WakeResume(tid, live) ==
  /\ IsTask(tid, "resume", "sleep")
  /\ Fires(tid)
  /\ LET t0 == Max(clock, tasks[tid].wake) IN
     \E ta \in Readings(t0) : \E tb \in Readings(ta) : \E tc \in Readings(tb) :
       LET e == ResumeSession(sessions, tasks, live, tasks[tid].sid, ta, tb, tc) IN
       /\ sessions' = e.S
       /\ tasks' = AfterCall(e, tid)
       /\ clock' = Max(e.now, t0)
       /\ out' = e.out
  /\ UNCHANGED << connections, calls >>

\* a task whose fan-out returned: start_session and resume_session go on
\* to _schedule_next_pause, pause_session returns
ContinueTask(tid) ==
  /\ tid \in DOMAIN tasks
  /\ tasks[tid].pc = "send"
  /\ \E t \in Readings(clock) :
       LET sid == tasks[tid].sid
           sp == IF tasks[tid].kind = "pause"
                 THEN [S |-> sessions, T |-> tasks]
                 ELSE ScheduleNextPause(sessions, tasks, sid, t)
       IN /\ sessions' = sp.S
          /\ tasks' = Collect(sp.S, [sp.T EXCEPT ![tid].pc = "done"])
          /\ clock' = IF tasks[tid].kind = "pause" THEN clock ELSE t
  /\ out' = EmptyDict
  /\ UNCHANGED << connections, calls, njumps >>

\* ------------------------------------------------------------ the clock
\* time passes while the callers are around
Tick ==
  /\ \E d \in ClockSteps : InHorizon(clock + d) /\ clock' = clock + d
  /\ out' = EmptyDict
  /\ UNCHANGED << connections, sessions, tasks, calls, njumps >>

\* ------------------------------------------------------- specifications
AllIds == SessionIds \cup UnknownIds

\* the Orchestrator against any ws collaborator
Next ==
  \/ Tick
  \/ \E sid \in SessionIds : \E fn \in Filenames : \E d \in Durations :
       \E t \in SchedTimes : CreateSession(sid, fn, d, t)
  \/ \E sid \in SessionIds : \E live \in LiveSets : StartSessionCall(sid, live)
  \/ \E sid \in SessionIds : \E live \in LiveSets : PauseSessionCall(sid, live)
  \/ \E sid \in SessionIds : \E live \in LiveSets : ResumeSessionCall(sid, live)
  \/ \E sid \in SessionIds : \E u \in Users : \E c \in ClientNames :
       \E clients \in AuthAnswers : AddParticipantCall(sid, u, c, clients)
  \/ \E f \in Frames : AddStore(f)
  \/ \E f \in Frames : ContinueCall(f)
  \/ \E tid \in DOMAIN tasks : \E live \in LiveSets : RunStart(tid, live)
  \/ \E tid \in DOMAIN tasks : \E live \in LiveSets : WakeStart(tid, live)
  \/ \E tid \in DOMAIN tasks : \E live \in LiveSets : WakePause(tid, live)
  \/ \E tid \in DOMAIN tasks : \E live \in LiveSets : WakeResume(tid, live)
  \/ \E tid \in DOMAIN tasks : ContinueTask(tid)

Spec == Init /\ [][Next]_vars

\* add_participant against the WebSocketManager itself: its
\* get_authorized_clients takes an uncontended lock and returns, so the
\* call runs from the session check to the store without suspending
Join(sid, username, client_name) ==
  /\ InHorizon(clock)
  /\ LET l == AddLookup(sessions, sid,
                        GetAuthorizedClients(connections, username), client_name)
     IN IF l.result # "-"
        THEN /\ out' = EmptyDict
             /\ UNCHANGED << clock, sessions >>
        ELSE \E t \in Readings(clock) :
               LET e == AddStoreEffect(sessions, tasks, sid, username, l.device, t) IN
               /\ sessions' = e.S
               /\ clock' = e.now
               /\ out' = e.out
  /\ UNCHANGED << connections, tasks, calls, njumps >>

\* users connect, register their devices, join and disconnect while the
\* scheduled start of the session runs against the same connections
JoinNext ==
  \/ Tick
  \/ \E u \in Users : WsAdd(u)
  \/ \E u \in Users : WsRemove(u)
  \/ \E u \in Users : \E l \in RegLists : Register(u, l)
  \/ \E sid \in SessionIds : \E fn \in Filenames : \E d \in Durations :
       \E t \in SchedTimes : CreateSession(sid, fn, d, t)
  \/ \E sid \in AllIds : \E u \in Users : \E c \in ClientNames : Join(sid, u, c)
  \/ \E tid \in DOMAIN tasks : RunStart(tid, Live(connections))
  \/ \E tid \in DOMAIN tasks : WakeStart(tid, Live(connections))
  \/ \E tid \in DOMAIN tasks : ContinueTask(tid)

JoinSpec == Init /\ [][JoinNext]_vars

\* --------------------------------------------------------- status reports
\* the frame of a handle_client_status_update suspended in ws.broadcast
StatusFrame(r, rest, adjusted) ==
  [op |-> "status", pc |-> "seek", report |-> r, rest |-> rest, adjusted |-> adjusted]

\* the commands a run handed over, by recipient (the latest one of each)
RECURSIVE LastSent(_)
LastSent(sent) ==
  IF sent = <<>> THEN EmptyDict
  ELSE Put(LastSent(SubSeq(sent, 1, Len(sent) - 1)),
           sent[Len(sent)].to, sent[Len(sent)].cmd)

\* where a run of the loop leaves the call
StatusRan(run, r) ==
  /\ run.susp => Room
  /\ clock' = run.now
  /\ out' = LastSent(run.sent)
  /\ UNCHANGED << connections, sessions, tasks, njumps >>

\* websocket_endpoint on a status_update message (receive_time = now()),
\* or a direct call with an earlier receive_time
StatusUpdate(username, filename, offset, receive_time, threshold_ms) ==
  /\ InHorizon(clock)
  /\ receive_time <= clock
  /\ LET r == Report(username, filename, offset, receive_time, threshold_ms) IN
     \E run \in HandleClientStatusUpdate(sessions, Live(connections), r, clock) :
       /\ StatusRan(run, r)
       /\ calls' = IF run.susp THEN Push(StatusFrame(r, run.rest, run.adjusted))
                   ELSE calls

\* handle_client_status_update after ws.broadcast returned: the loop goes
\* on with the sessions of its snapshot that it has not visited yet
StatusContinue(f) ==
  /\ f \in Frames
  /\ f.pc = "seek"
  /\ \E run \in StatusRuns(sessions, Live(connections), f.report, f.rest,
                            clock, f.adjusted, <<>>) :
       /\ clock' = run.now
       /\ out' = LastSent(run.sent)
       /\ calls' = IF run.susp
                   THEN Pop(f) (+) SetToBag({StatusFrame(f.report, run.rest, run.adjusted)})
                   ELSE Pop(f)
  /\ UNCHANGED << connections, sessions, tasks, njumps >>

\* participants of one or two sessions report their position while users
\* connect, register, join and disconnect and the sessions start
StatusNext ==
  \/ Tick
  \/ \E u \in Users : WsAdd(u)
  \/ \E u \in Reporters : WsRemove(u)
  \/ \E u \in Users : \E l \in RegLists : Register(u, l)
  \/ \E i \in DOMAIN IdOrder : \E fn \in StatusFilenames : \E d \in Durations :
       /\ \A j \in 1..(i - 1) : IdOrder[j] \in DOMAIN sessions
       /\ i = 1 => fn = "a.mp4"
       /\ CreateSession(IdOrder[i], fn, d, 0)
  \/ \E sid \in StatusIds : \E u \in Users :
       /\ u \in Reporters \/ sid = IdOrder[1]
       /\ Join(sid, u, "tv")
  \/ \E tid \in DOMAIN tasks : RunStart(tid, Live(connections))
  \/ \E tid \in DOMAIN tasks : ContinueTask(tid)
  \/ \E u \in Reporters \cup {NoName} : \E fn \in StatusFilenames :
       \E o \in ReportedOffsets : \E th \in Thresholds :
         StatusUpdate(u, fn, o, clock, th)
  \/ \E f \in Frames : StatusContinue(f)

StatusSpec == Init /\ [][StatusNext]_vars

\* ============================================ fan-out of the WebSocketManager
\* asyncio.create_task(conn.send_command(cmd)): conn is the Connection of
\* user u in the snapshot; ticket is the task's place among those that
\* waited for the lock of that Connection, fate what send_json does
SendTask(u, cmd, n) ==
  [kind |-> "send", conn |-> u, cmd |-> cmd, batch |-> n, pc |-> "new",
   ticket |-> 0, fate |-> "-"]

SendsOn(T, u) == {i \in DOMAIN T : T[i].conn = u}
\* one lock for all Connections: every send in progress counts
WritingAnywhere(T, u) == {i \in DOMAIN T : T[i].pc = "write"}
Writing(T, u) == {i \in SendsOn(T, u) : T[i].pc = "write"}
Waiting(T, u) == {i \in SendsOn(T, u) : T[i].pc = "wait"}
Finished(t) == t.pc \in {"done", "failed"}

\* `async with self._lock` entering whether or not the lock is held
CanAcquireAnyway(T, u) == TRUE

\* asyncio.Lock.acquire returns at once when the lock is not held and
\* nobody waits for it; Connection._lock is held from the entry of
\* `async with` to the end of send_json
CanAcquire(T, u) == Writing(T, u) = {} /\ Waiting(T, u) = {}

\* asyncio.Lock.release waking the task that has waited shortest
FirstWaiterLast(T, u) ==
  {i \in Waiting(T, u) : \A j \in Waiting(T, u) : T[i].ticket >= T[j].ticket}

\* asyncio.Lock.release wakes the task that has waited longest
FirstWaiter(T, u) ==
  {i \in Waiting(T, u) : \A j \in Waiting(T, u) : T[i].ticket <= T[j].ticket}

NextTicket(T, u) ==
  1 + Cardinality({i \in SendsOn(T, u) : T[i].ticket > 0})

\* the recipients of cmd_map in the order of the dict
Recipients(cmd_map) == SelectSeq(NameOrder, LAMBDA u : u \in DOMAIN cmd_map)

\* WebSocketManager.broadcast_many, lines 140-154: the snapshot of the
\* connections under the manager lock and one send task per recipient
\* that has a connection; n numbers the call
BroadcastMany(C, T, cmd_map, n) ==
  LET rs == SelectSeq(Recipients(cmd_map), LAMBDA u : u \in DOMAIN C)
      base == Cardinality(DOMAIN T)
  IN T @@ [i \in (base + 1)..(base + Len(rs)) |->
             SendTask(rs[i - base], cmd_map[rs[i - base]], n)]

\* gather without return_exceptions: the first exception ends the call
GatherFailsFast(T, tids) ==
  IF \E i \in tids : T[i].pc = "failed" THEN "raised"
  ELSE IF \A i \in tids : Finished(T[i]) THEN "returned"
  ELSE "pending"

\* asyncio.gather(*tasks, return_exceptions=True), lines 159-163: waits
\* for every task and returns their results, exceptions included
Gather(T, tids) ==
  IF \A i \in tids : Finished(T[i]) THEN "returned" ELSE "pending"

\* the frame of a broadcast_many suspended in gather
BatchFrame(n, tids) ==
  [op |-> "broadcast_many", pc |-> "gather", batch |-> n, tids |-> tids]

\* the command map a caller hands over: to each name a command with the
\* device of that name
CmdFor(u) == WSCommand("pause", None, "a.mp4", Device("tv", u))
CmdMaps == {[u \in names |-> CmdFor(u)] : names \in SUBSET (Users \cup Strangers)}

Batches(T) == {T[i].batch : i \in DOMAIN T}

\* a call of broadcast_many up to `if not tasks: return` or to gather
BroadcastManyCall(cmd_map) ==
  LET n == Cardinality(Batches(tasks)) + 1
      T1 == BroadcastMany(connections, tasks, cmd_map, n)
      tids == DOMAIN T1 \ DOMAIN tasks
  IN /\ Cardinality(DOMAIN T1) <= MaxSends
     /\ tasks' = T1
     /\ calls' = IF tids = {} THEN calls ELSE Push(BatchFrame(n, tids))
     /\ out' = EmptyDict
     /\ UNCHANGED << clock, connections, sessions, njumps >>

\* send_json is entered: the frame goes out whole, the send raises, or
\* it never returns
StartWrite(tid, fate) ==
  tasks' = [tasks EXCEPT ![tid].pc = "write", ![tid].fate = fate]

\* Connection.send_command, first run of the task: lines 40-43
SendRun(tid, fate) ==
  /\ tid \in DOMAIN tasks
  /\ tasks[tid].pc = "new"
  /\ IF CanAcquire(tasks, tasks[tid].conn) THEN StartWrite(tid, fate)
     ELSE tasks' = [tasks EXCEPT ![tid].pc = "wait",
                                 ![tid].ticket = NextTicket(tasks, tasks[tid].conn)]
  /\ out' = EmptyDict
  /\ UNCHANGED << clock, connections, sessions, calls, njumps >>

\* Connection.send_command woken in `async with self._lock`
SendWake(tid, fate) ==
  /\ tid \in DOMAIN tasks
  /\ tid \in FirstWaiter(tasks, tasks[tid].conn)
  /\ Writing(tasks, tasks[tid].conn) = {}
  /\ StartWrite(tid, fate)
  /\ out' = EmptyDict
  /\ UNCHANGED << clock, connections, sessions, calls, njumps >>

\* send_json returns or raises; the lock is released either way
SendDone(tid) ==
  /\ tid \in DOMAIN tasks
  /\ tasks[tid].pc = "write"
  /\ tasks[tid].fate # "blocks"
  /\ tasks' = [tasks EXCEPT ![tid].pc = IF tasks[tid].fate = "ok" THEN "done"
                                         ELSE "failed"]
  /\ out' = EmptyDict
  /\ UNCHANGED << clock, connections, sessions, calls, njumps >>

\* broadcast_many returns from gather, logs the exceptions and returns
GatherReturn(f) ==
  /\ f \in Frames
  /\ f.pc = "gather"
  /\ Gather(tasks, f.tids) = "returned"
  /\ calls' = Pop(f)
  /\ out' = EmptyDict
  /\ UNCHANGED << clock, connections, sessions, tasks, njumps >>

\* the steps of send task tid that the event loop takes when it can
SendStep(tid) ==
  \/ \E fate \in Fates : SendRun(tid, fate)
  \/ \E fate \in Fates : SendWake(tid, fate)
  \/ SendDone(tid)

SendIds == 1..MaxSends

\* callers fan commands out while users connect; a user connects once
SendNext ==
  \/ \E u \in Users : SendsOn(tasks, u) = {} /\ u \notin DOMAIN connections /\ WsAdd(u)
  \/ \E cmd_map \in CmdMaps : BroadcastManyCall(cmd_map)
  \/ \E tid \in SendIds : \E fate \in Fates : SendRun(tid, fate)
  \/ \E tid \in SendIds : \E fate \in Fates : SendWake(tid, fate)
  \/ \E tid \in SendIds : SendDone(tid)
  \/ \E f \in Frames : GatherReturn(f)

SendSpec == Init /\ [][SendNext]_vars

\* the event loop runs every task that is ready: a send task that can
\* take a step takes it, and a gather whose tasks all finished returns
SendFair ==
  /\ SendSpec
  /\ \A tid \in SendIds : WF_vars(SendStep(tid))
  /\ WF_vars(\E f \in Frames : GatherReturn(f))

\* ============================================================ the pause rule
\* a session that was started at 0 by its start task and has played for
\* elapsed ms, with no pause, with one pause of the fixed length behind
\* it, or in a pause
Played(duration_ms, elapsed, pause) ==
  LET len == PauseSeconds * 1000 * TicksPerMs
      at == elapsed * TicksPerMs
  IN [Session("a.mp4", duration_ms, 0) EXCEPT
        !.start_time = 0,
        !.start_task = 1,
        !.pause_intervals =
          IF pause = "none" THEN <<>>
          ELSE IF pause = "closed" THEN << [start |-> 0, end |-> len] >>
          ELSE << [start |-> at, end |-> None] >>]

PauseRuleInit ==
  \E d \in RuleDurations : \E e \in RuleElapsed : \E p \in RulePauses :
    /\ clock = e * TicksPerMs
                + (IF p = "closed" THEN PauseSeconds * 1000 * TicksPerMs ELSE 0)
    /\ connections = EmptyDict
    /\ sessions = ("s1" :> Played(d, e, p))
    /\ tasks = (1 :> [StartTask("s1") EXCEPT !.pc = "done"])
    /\ calls = EmptyBag
    /\ njumps = 0
    /\ out = EmptyDict

\* _schedule_next_pause run once on the session: it takes the lock, which
\* nobody holds, twice and does not suspend
SchedulePauseCall(sid) ==
  /\ sid \in DOMAIN sessions
  /\ sessions[sid].pause_task = None
  /\ LET sp == ScheduleNextPause(sessions, tasks, sid, clock) IN
     /\ sp.S # sessions
     /\ sessions' = sp.S
     /\ tasks' = sp.T
  /\ out' = EmptyDict
  /\ UNCHANGED << clock, connections, calls, njumps >>

PauseRuleNext == \E sid \in SessionIds : SchedulePauseCall(sid)

PauseRuleSpec == PauseRuleInit /\ [][PauseRuleNext]_vars

\* ========================================================== the commands
\* users register devices of their own and join a session with them; the
\* session starts, is paused and resumed, by callers and by the
\* auto-resume, against the connections of the WebSocketManager
CommandNext ==
  \/ Tick
  \/ \E u \in Users : WsAdd(u)
  \/ \E u \in Users : Register(u, OwnList(u))
  \/ \E sid \in SessionIds : \E fn \in StatusFilenames : \E d \in Durations :
       CreateSession(sid, fn, d, 0)
  \/ \E sid \in SessionIds : \E u \in Users : \E c \in ClientNames : Join(sid, u, c)
  \/ \E tid \in DOMAIN tasks : RunStart(tid, Live(connections))
  \/ \E tid \in DOMAIN tasks : ContinueTask(tid)
  \/ \E sid \in SessionIds : PauseSessionCall(sid, Live(connections))
  \/ \E sid \in SessionIds : ResumeSessionCall(sid, Live(connections))
  \/ \E f \in Frames : ContinueCall(f)
  \/ \E tid \in DOMAIN tasks : WakeResume(tid, Live(connections))

CommandSpec == Init /\ [][CommandNext]_vars

\* ============================================================== shutdown
\* the operations of Spec on a session that one user can join, and the
\* sweep of stop_background_tasks at any moment among them
ShutdownNext ==
  \/ Tick
  \/ \E sid \in SessionIds : \E fn \in Filenames : \E d \in Durations :
       \E t \in SchedTimes : CreateSession(sid, fn, d, t)
  \/ \E sid \in SessionIds : \E live \in LiveSets : StartSessionCall(sid, live)
  \/ \E sid \in SessionIds : \E live \in LiveSets : PauseSessionCall(sid, live)
  \/ \E sid \in SessionIds : \E live \in LiveSets : ResumeSessionCall(sid, live)
  \/ \E sid \in SessionIds : \E u \in Reporters : \E c \in ClientNames :
       \E clients \in AuthAnswers : AddParticipantCall(sid, u, c, clients)
  \/ \E f \in Frames : AddStore(f)
  \/ \E f \in Frames : ContinueCall(f)
  \/ \E tid \in DOMAIN tasks : \E live \in LiveSets : RunStart(tid, live)
  \/ \E tid \in DOMAIN tasks : \E live \in LiveSets : WakeStart(tid, live)
  \/ \E tid \in DOMAIN tasks : \E live \in LiveSets : WakePause(tid, live)
  \/ \E tid \in DOMAIN tasks : \E live \in LiveSets : WakeResume(tid, live)
  \/ \E tid \in DOMAIN tasks : ContinueTask(tid)
  \/ StopBackgroundTasksCall

ShutdownSpec == Init /\ [][ShutdownNext]_vars

\* ================================================== the websocket endpoint
\* websocket_endpoint, lines 113-125: the passkey of the Authorization
\* header; a header that cannot be parsed counts as missing ("")
ParsePasskey(auth_hdr) == IF auth_hdr = "bearer" THEN "k" ELSE ""

\* lines 113-125: with "Bearer " and nothing after it the parsing raises,
\* and the username is dropped as well
ParseUsername(name, auth_hdr) == IF auth_hdr = "bearer-empty" THEN "" ELSE name

\* verify_passkey accepting every answer with status 200
VerifyPasskeyAny200(username, passkey, configured, answer) ==
  IF ~configured \/ username = "" \/ passkey = "" THEN "HTTPException"
  ELSE IF answer.status_code = 200 THEN "ok"
  ELSE "HTTPException"

\* verify_passkey: returns on a 200 whose JSON body has a true "valid",
\* raises HTTPException for everything else
VerifyPasskey(username, passkey, configured, answer) ==
  IF ~configured \/ username = "" \/ passkey = "" THEN "HTTPException"
  ELSE IF answer.status_code = 200 /\ answer.valid = "true" THEN "ok"
  ELSE "HTTPException"

\* one run of websocket_endpoint, the task the server starts for a socket
Endpoint(username, passkey, configured, pc) ==
  [kind |-> "endpoint", username |-> username, passkey |-> passkey,
   configured |-> configured, answer |-> NotAsked, pc |-> pc,
   accepted |-> FALSE, closed |-> FALSE]

\* websocket.close(code=1008) and return
Refused(t) == [t EXCEPT !.pc = "refused", !.closed = TRUE]

Endpoints == {i \in DOMAIN tasks : tasks[i].kind = "endpoint"}

\* websocket_endpoint, lines 92-140: the wss requirement, the headers, the
\* missing-identity check, and verify_passkey up to its POST
Connect(name, auth_hdr, require_wss, secure, configured) ==
  /\ Cardinality(Endpoints) < MaxConnects
  /\ LET username == ParseUsername(name, auth_hdr)
         passkey == ParsePasskey(auth_hdr)
         t == Endpoint(username, passkey, configured, "verify")
         id == NewTaskId(tasks)
     IN tasks' = tasks @@ (id :>
          IF require_wss /\ ~secure THEN Refused(t)
          ELSE IF username = "" \/ passkey = "" THEN Refused(t)
          ELSE IF ~configured THEN Refused(t)
          ELSE t)
  /\ out' = EmptyDict
  /\ UNCHANGED << clock, connections, sessions, calls, njumps >>

\* verify_passkey returns or raises, lines 138-148
Verified(tid, answer) ==
  /\ tid \in Endpoints
  /\ tasks[tid].pc = "verify"
  /\ LET t == [tasks[tid] EXCEPT !.answer = answer] IN
     tasks' = [tasks EXCEPT ![tid] =
       IF VerifyPasskey(t.username, t.passkey, t.configured, answer) = "ok"
       THEN [t EXCEPT !.pc = "accept"]
       ELSE Refused(t)]
  /\ out' = EmptyDict
  /\ UNCHANGED << clock, connections, sessions, calls, njumps >>

\* websocket.accept() returns, then Connection(...) and ws_manager.add,
\* lines 150-153; or accept raises because the peer has gone
Accepted(tid, ok) ==
  /\ tid \in Endpoints
  /\ tasks[tid].pc = "accept"
  /\ IF ok
     THEN /\ tasks' = [tasks EXCEPT ![tid].pc = "serving", ![tid].accepted = TRUE]
          /\ connections' = Put(connections, tasks[tid].username,
                                [authorized_clients |-> <<>>])
     ELSE /\ tasks' = [tasks EXCEPT ![tid].pc = "failed"]
          /\ UNCHANGED connections
  /\ out' = EmptyDict
  /\ UNCHANGED << clock, sessions, calls, njumps >>

\* receive_json raises WebSocketDisconnect: ws_manager.remove(username)
Disconnected(tid) ==
  /\ tid \in Endpoints
  /\ tasks[tid].pc = "serving"
  /\ tasks' = [tasks EXCEPT ![tid].pc = "gone"]
  /\ connections' = Del(connections, tasks[tid].username)
  /\ out' = EmptyDict
  /\ UNCHANGED << clock, sessions, calls, njumps >>

ConnectNext ==
  \/ \E name \in HeaderNames : \E auth_hdr \in AuthHeaders :
       \E require_wss \in BOOLEAN : \E secure \in BOOLEAN : \E configured \in BOOLEAN :
         Connect(name, auth_hdr, require_wss, secure, configured)
  \/ \E tid \in DOMAIN tasks : \E answer \in Answers : Verified(tid, answer)
  \/ \E tid \in DOMAIN tasks : \E ok \in BOOLEAN : Accepted(tid, ok)
  \/ \E tid \in DOMAIN tasks : Disconnected(tid)

ConnectSpec == Init /\ [][ConnectNext]_vars

\* ============================================================ registration
\* users connect and register payloads of every shape
RegisterNext ==
  \/ \E u \in Users : WsAdd(u)
  \/ \E u \in Users : WsRemove(u)
  \/ \E u \in Users : \E l \in RawLists : Register(u, l)

RegisterSpec == Init /\ [][RegisterNext]_vars

\* a step of the scheduled-start task
StartTaskStep ==
  \E tid \in DOMAIN tasks : \E live \in LiveSets :
    RunStart(tid, live) \/ WakeStart(tid, live)

\* time passes, and the event loop runs the start task when it is ready
\* and when its timer is due
ShutdownFair ==
  /\ ShutdownSpec
  /\ WF_vars(Tick)
  /\ WF_vars(StartTaskStep)

\* ------------------------------------------- the automatic pauses alone
\* durations of less than an hour, of two hours and exactly 30 minutes, and
\* of two hours and 31 minutes
AutoDurations == {3000000, 9000000, 9060000}
\* how late after its deadline the event loop runs a timer (ticks)
LateTicks == {0, 1, HOUR_MS * TicksPerMs}

\* asyncio.sleep: time passes until the earliest timer is due, or later
Elapse ==
  /\ \E tid \in Sleeping : \E late \in LateTicks :
       /\ \A i \in Sleeping : tasks[tid].wake <= tasks[i].wake
       /\ tasks[tid].wake > clock
       /\ clock' = tasks[tid].wake + late
  /\ out' = EmptyDict
  /\ UNCHANGED << connections, sessions, tasks, calls, njumps >>

\* a session that nobody pauses or resumes by hand: a user connects,
\* registers and joins, the scheduled start runs, and from then on only the
\* pause and auto-resume tasks act on the session
AutoNext ==
  \/ Tick
  \/ Elapse
  \/ \E u \in Reporters : WsAdd(u)
  \/ \E u \in Reporters : WsRemove(u)
  \/ \E u \in Reporters : Register(u, OwnList(u))
  \/ \E sid \in SessionIds : \E fn \in Filenames : \E d \in AutoDurations :
       \E t \in SchedTimes : CreateSession(sid, fn, d, t)
  \/ \E sid \in SessionIds : \E u \in Reporters : Join(sid, u, "tv")
  \/ \E tid \in DOMAIN tasks : RunStart(tid, Live(connections))
  \/ \E tid \in DOMAIN tasks : WakeStart(tid, Live(connections))
  \/ \E tid \in DOMAIN tasks : WakePause(tid, Live(connections))
  \/ \E tid \in DOMAIN tasks : WakeResume(tid, Live(connections))
  \/ \E tid \in DOMAIN tasks : ContinueTask(tid)

AutoSpec == Init /\ [][AutoNext]_vars

\* ------------------------------------------- a recipient that never reads
\* websocket.send_json of one recipient never returns: the send task stays
\* in send_command, asyncio.gather waits for every task of the fan-out
\* (lines 159-163 of the manager), so broadcast_many does not return to
\* the operation that awaits it
SendBlocks(tid) ==
  /\ tid \in DOMAIN tasks
  /\ tasks[tid].pc = "send"
  /\ tasks' = [tasks EXCEPT ![tid].pc = "stuck"]
  /\ out' = EmptyDict
  /\ UNCHANGED << clock, connections, sessions, calls, njumps >>

\* the automatic control loop of a session whose participants may stop
\* reading their sockets
BlockNext ==
  \/ Elapse
  \/ \E u \in Reporters : WsAdd(u)
  \/ \E u \in Reporters : Register(u, OwnList(u))
  \/ \E sid \in SessionIds : \E fn \in Filenames : \E d \in Durations :
       \E t \in SchedTimes : CreateSession(sid, fn, d, t)
  \/ \E sid \in SessionIds : \E u \in Reporters : Join(sid, u, "tv")
  \/ \E tid \in DOMAIN tasks : RunStart(tid, Live(connections))
  \/ \E tid \in DOMAIN tasks : WakeStart(tid, Live(connections))
  \/ \E tid \in DOMAIN tasks : WakePause(tid, Live(connections))
  \/ \E tid \in DOMAIN tasks : WakeResume(tid, Live(connections))
  \/ \E tid \in DOMAIN tasks : ContinueTask(tid)
  \/ \E tid \in DOMAIN tasks : SendBlocks(tid)

BlockSpec == Init /\ [][BlockNext]_vars

\* a task that is ready to run, or whose timer is due
TaskStep ==
  \E tid \in DOMAIN tasks :
    \/ RunStart(tid, Live(connections))
    \/ WakeStart(tid, Live(connections))
    \/ WakePause(tid, Live(connections))
    \/ WakeResume(tid, Live(connections))
    \/ ContinueTask(tid)

\* time passes and the event loop runs every task that can run
BlockFair ==
  /\ BlockSpec
  /\ WF_vars(Elapse)
  /\ WF_vars(TaskStep)

\* ================================================== the order of deliveries
\* a started session whose participants are `names`; its timers are left
\* out of this specification, pauses and resumes come from callers
OrderInit ==
  \E names \in {{"alice"}, Users} :
    /\ clock = 0
    /\ connections = EmptyDict
    /\ sessions = ("s1" :> [Played(3000000, 0, "none") EXCEPT
                              !.start_task = None,
                              !.participants =
                                [u \in names |->
                                   [username |-> u, device |-> Device("tv", u)]]])
    /\ tasks = EmptyDict
    /\ calls = EmptyBag
    /\ njumps = 0
    /\ out = EmptyDict

\* the sessions without the handles of their timers
NoTimers(S) ==
  [sid \in DOMAIN S |-> [S[sid] EXCEPT !.pause_task = None, !.resume_task = None]]

\* loop.call_soon: the event loop runs the first step of tasks in the
\* order in which they were created
FirstReady(T) ==
  {i \in DOMAIN T : T[i].pc = "new" /\ \A j \in DOMAIN T : T[j].pc = "new" => i <= j}

\* pause_session or resume_session from its entry to the gather of
\* broadcast_many: the intervals change under the session lock, and the
\* send tasks of the commands are created before anything else runs
MutateAndFanOut(e) ==
  LET n == Cardinality(Batches(tasks)) + 1
      T1 == BroadcastMany(connections, tasks, e.out, n)
      tids == DOMAIN T1 \ DOMAIN tasks
  IN /\ Cardinality(DOMAIN T1) <= MaxSends
     /\ sessions' = NoTimers(e.S)
     /\ tasks' = T1
     /\ calls' = IF tids = {} THEN calls ELSE Push(BatchFrame(n, tids))
     /\ out' = e.out
     /\ UNCHANGED << clock, connections, njumps >>

PauseCall(sid) ==
  /\ Len(sessions[sid].pause_intervals) < MaxIntervals
  /\ MutateAndFanOut(PauseSession(sessions, EmptyDict, Live(connections), sid, clock))

ResumeCall(sid) ==
  /\ LastOpen(sessions[sid])
  /\ MutateAndFanOut(ResumeSession(sessions, EmptyDict, Live(connections), sid,
                                   clock, clock, clock))

\* the first step of the send task that was created first
SendRunInOrder(tid, fate) ==
  /\ tid \in FirstReady(tasks)
  /\ SendRun(tid, fate)

OrderNext ==
  \/ \E u \in Users : SendsOn(tasks, u) = {} /\ u \notin DOMAIN connections /\ WsAdd(u)
  \/ \E sid \in SessionIds : PauseCall(sid)
  \/ \E sid \in SessionIds : ResumeCall(sid)
  \/ \E tid \in SendIds : \E fate \in Fates : SendRunInOrder(tid, fate)
  \/ \E tid \in SendIds : \E fate \in Fates : SendWake(tid, fate)
  \/ \E tid \in SendIds : SendDone(tid)
  \/ \E f \in Frames : GatherReturn(f)

OrderSpec == OrderInit /\ [][OrderNext]_vars

\* ======================================================= the session lock
\* The control skeleton of every Orchestrator operation and background
\* task: where it takes and leaves Orchestrator._lock, where it touches the
\* sessions, where it can return or raise, where it awaits.  A "?" marks
\* what depends on data: an early return or raise, a fan-out that has
\* nobody to send to, a sleep of no length
Ins(kind) == [kind |-> kind, arg |-> "-"]
SpawnTask(op) == [kind |-> "spawn", arg |-> op]

\* async with self._lock: ... (lines 98-115 and 129-132 around create_task)
SchedulePauseCode ==
  << Ins("acquire"), Ins("access"), Ins("ret?"), Ins("release"),
     SpawnTask("_run_pause"),
     Ins("acquire"), Ins("access"), Ins("release") >>

\* lines 192-232
StartSessionCode ==
  << Ins("acquire"), Ins("access"), Ins("ret?"), Ins("release"), Ins("send?") >>
    \o SchedulePauseCode

\* pause_session sending its PAUSEs before it leaves the second block
PauseSessionCodeSendsLocked ==
  << Ins("acquire"), Ins("access"), Ins("ret?"), Ins("release"),
     SpawnTask("_auto_resume"),
     Ins("acquire"), Ins("access"), Ins("send?"), Ins("release") >>

\* lines 242-286
PauseSessionCode ==
  << Ins("acquire"), Ins("access"), Ins("ret?"), Ins("release"),
     SpawnTask("_auto_resume"),
     Ins("acquire"), Ins("access"), Ins("release"), Ins("send?") >>

\* lines 295-329
ResumeSessionCode ==
  << Ins("acquire"), Ins("access"), Ins("ret?"), Ins("release"), Ins("send?") >>
    \o SchedulePauseCode

\* lines 141-182: the ws lookup is awaited between the two blocks
AddParticipantCode ==
  << Ins("acquire"), Ins("access"), Ins("ret?"), Ins("release"),
     Ins("await"), Ins("ret?"),
     Ins("acquire"), Ins("access"), Ins("ret?"), Ins("release"), Ins("send?") >>

\* lines 76-86
CreateSessionCode ==
  << Ins("acquire"), Ins("access"), Ins("release"),
     SpawnTask("_run_start"),
     Ins("acquire"), Ins("access"), Ins("release") >>

\* lines 44-54
StopBackgroundTasksCode == << Ins("acquire"), Ins("access"), Ins("release") >>

\* lines 345-346
ListSessionsCode == << Ins("acquire"), Ins("access"), Ins("release") >>

\* lines 355-385: the snapshot of the session list, then for each session
\* of it (two here) the participant test, _calculate_offset, the
\* participant lookup and the SEEK
StatusUpdateCode ==
  << Ins("acquire"), Ins("access"), Ins("release"), Ins("ret?"),
     Ins("access"), Ins("send?"),
     Ins("access"), Ins("send?") >>

\* lines 60-73, 117-126 and 250-258: the bodies of the three tasks
RunStartCode ==
  << Ins("acquire"), Ins("access"), Ins("ret?"), Ins("release"), Ins("sleep?") >>
    \o StartSessionCode
RunPauseCode == << Ins("sleep?") >> \o PauseSessionCode
AutoResumeCode == << Ins("sleep") >> \o ResumeSessionCode

Operations ==
  {"create_session", "start_session", "pause_session", "resume_session",
   "add_participant", "stop_background_tasks", "list_sessions",
   "handle_client_status_update"}
TaskBodies == {"_run_start", "_run_pause", "_auto_resume"}

Code(op) ==
  << Ins("start") >> \o
  (CASE op = "create_session" -> CreateSessionCode
     [] op = "start_session" -> StartSessionCode
     [] op = "pause_session" -> PauseSessionCode
     [] op = "resume_session" -> ResumeSessionCode
     [] op = "add_participant" -> AddParticipantCode
     [] op = "stop_background_tasks" -> StopBackgroundTasksCode
     [] op = "list_sessions" -> ListSessionsCode
     [] op = "handle_client_status_update" -> StatusUpdateCode
     [] op = "_run_start" -> RunStartCode
     [] op = "_run_pause" -> RunPauseCode
     [] op = "_auto_resume" -> AutoResumeCode)
  \o << Ins("end") >>

\* a coroutine: it runs, or waits where it is for the event loop to run
\* it (at its start, in an await, or for the lock)
Coroutine(op, pc, holds, st) == [op |-> op, pc |-> pc, holds |-> holds, st |-> st]

At(f) == Code(f.op)[f.pc]
Running == {f \in Frames : f.st = "running"}
LockFree == \A f \in Frames : ~f.holds
Replace(f, g) == Pop(f) (+) SetToBag({g})
Awaits == {"send?", "sleep?", "sleep", "await"}

\* a caller, or the server on a message, calls an operation
Call(op) ==
  /\ BagCardinality(calls) < MaxFrames
  /\ calls' = Push(Coroutine(op, 1, FALSE, "waiting"))
  /\ out' = EmptyDict
  /\ UNCHANGED << clock, connections, sessions, tasks, njumps >>

\* the event loop runs a coroutine whose wait is over: only when no other
\* one is running, and one that waits for the lock only when it is free
Resume(f) ==
  /\ f \in Frames
  /\ f.st = "waiting"
  /\ Running = {}
  /\ IF At(f).kind = "acquire"
     THEN /\ LockFree
          /\ calls' = Replace(f, Coroutine(f.op, f.pc + 1, TRUE, "running"))
     ELSE calls' = Replace(f, Coroutine(f.op, f.pc + 1, f.holds, "running"))
  /\ out' = EmptyDict
  /\ UNCHANGED << clock, connections, sessions, tasks, njumps >>

\* task.cancel() on a waiting task: CancelledError ends it where it waits,
\* and `async with` leaves the lock on the way out
Cancel(f) ==
  /\ f \in Frames
  /\ f.st = "waiting"
  /\ f.op \in TaskBodies
  /\ calls' = Pop(f)
  /\ out' = EmptyDict
  /\ UNCHANGED << clock, connections, sessions, tasks, njumps >>

\* the running coroutine executes the instruction it is at
Step(f) ==
  /\ f \in Frames
  /\ f.st = "running"
  /\ LET k == At(f).kind
         on == Coroutine(f.op, f.pc + 1, f.holds, "running")
         wait == Coroutine(f.op, f.pc, f.holds, "waiting")
     IN CASE k = "acquire" ->
               calls' = IF LockFree THEN Replace(f, [on EXCEPT !.holds = TRUE])
                        ELSE Replace(f, wait)
          [] k = "release" -> calls' = Replace(f, [on EXCEPT !.holds = FALSE])
          [] k = "access" -> calls' = Replace(f, on)
          [] k = "ret?" -> calls' = Replace(f, on) \/ calls' = Pop(f)
          [] k \in {"send?", "sleep?"} -> calls' = Replace(f, on) \/ calls' = Replace(f, wait)
          [] k \in {"sleep", "await"} -> calls' = Replace(f, wait)
          [] k = "spawn" ->
               calls' = IF BagCardinality(calls) < MaxFrames
                        THEN Replace(f, on) (+) SetToBag({Coroutine(At(f).arg, 1, FALSE, "waiting")})
                        ELSE Replace(f, on)
          [] k = "end" -> calls' = Pop(f)
  /\ out' = EmptyDict
  /\ UNCHANGED << clock, connections, sessions, tasks, njumps >>

LockNext ==
  \/ \E op \in Operations : Call(op)
  \/ \E f \in Frames : Resume(f)
  \/ \E f \in Frames : Cancel(f)
  \/ \E f \in Frames : Step(f)

LockSpec == Init /\ [][LockNext]_vars

\* ============================================================= two sessions
\* two sessions of the same file side by side: users connect and register
\* before the first session is created, alice takes part in both sessions,
\* bob in the second one only, and callers start, pause and resume them
FrameNext ==
  \/ \E u \in Users : u \notin DOMAIN connections /\ sessions = EmptyDict /\ WsAdd(u)
  \/ \E u \in Users :
       /\ sessions = EmptyDict
       /\ u \in DOMAIN connections
       /\ connections[u].authorized_clients = << >>
       /\ Register(u, OwnList(u))
  \/ \E i \in DOMAIN IdOrder :
       /\ \A j \in 1..(i - 1) : IdOrder[j] \in DOMAIN sessions
       /\ CreateSession(IdOrder[i], "a.mp4", 3000000, 0)
  \/ \E sid \in StatusIds : \E u \in Users :
       /\ u \in Reporters \/ sid = IdOrder[2]
       /\ sid \in DOMAIN sessions
       /\ u \notin DOMAIN sessions[sid].participants
       /\ Join(sid, u, "tv")
  \/ \E sid \in StatusIds : StartSessionCall(sid, Live(connections))
  \/ \E sid \in StatusIds :
       /\ Cardinality(UNION {{x} \X DOMAIN sessions[x].pause_intervals :
                              x \in DOMAIN sessions}) < MaxIntervals
       /\ PauseSessionCall(sid, Live(connections))
  \/ \E sid \in StatusIds : ResumeSessionCall(sid, Live(connections))
  \/ \E f \in Frames : ContinueCall(f)

\* nothing exists yet; the wall clock shows the last instant followed, so
\* that every reading of now() is the same
FrameInit ==
  /\ clock = Horizon
  /\ connections = EmptyDict
  /\ sessions = EmptyDict
  /\ tasks = EmptyDict
  /\ calls = EmptyBag
  /\ njumps = 0
  /\ out = EmptyDict

FrameSpec == FrameInit /\ [][FrameNext]_vars

\* ==================================================== the three kinds of lock
\* The skeletons above with what they await written out: the methods of the
\* WebSocketManager and of the Connection, which take the registry lock and
\* the lock of the Connection
Section(lock, body) ==
  << [kind |-> "acquire", arg |-> lock] >> \o body \o << [kind |-> "release", arg |-> lock] >>

\* `if x: ...`: the statements of body run or are skipped
Opt(body) == << [kind |-> "skip?", arg |-> Len(body)] >> \o body

\* WebSocketManager.add, remove, get, get_authorized_clients, list_users
RegistryCode == Section("registry", << Ins("access") >>)

\* Connection.send_command, lines 40-43
SendCommandCode == Section("connection", << Ins("send_json") >>)

\* Connection.set_status and set_authorized_clients
SetStatusCode == Section("connection", << Ins("access") >>)

\* WebSocketManager.broadcast sending before it leaves the registry lock
BroadcastCodeNested ==
  Section("registry", << Ins("access") >> \o Opt(SendCommandCode))

\* WebSocketManager.broadcast, lines 126-129
BroadcastCode == RegistryCode \o Opt(SendCommandCode)

\* WebSocketManager.broadcast_many, lines 141-159, for up to two recipients
BroadcastManyCode ==
  RegistryCode \o << SpawnTask("send_command"), SpawnTask("send_command") >>
    \o Opt(<< Ins("gather") >>)

\* api.websocket_endpoint from ws_manager.add on: a register message, a
\* status_update message, the disconnect
EndpointCode ==
  RegistryCode \o << Ins("receive_json") >>
    \o Opt(SetStatusCode \o << Ins("receive_json") >>)
    \o Opt(StatusUpdateCode \o SetStatusCode \o << Ins("receive_json") >>)
    \o RegistryCode

\* what an instruction of an Orchestrator skeleton stands for
Inline(op, ins) ==
  IF ins.kind = "send?"
  THEN Opt(IF op \in {"add_participant", "handle_client_status_update", "websocket_endpoint"}
           THEN BroadcastCode ELSE BroadcastManyCode)
  ELSE IF ins.kind = "await" THEN RegistryCode
  ELSE IF ins.kind \in {"acquire", "release"} /\ ins.arg = "-"
       THEN << [ins EXCEPT !.arg = "session"] >>
  ELSE << ins >>

RECURSIVE InlineAll(_, _)
InlineAll(op, code) ==
  IF code = << >> THEN << >>
  ELSE Inline(op, Head(code)) \o InlineAll(op, Tail(code))

NestCode(op) ==
  IF op \in Operations \cup TaskBodies THEN InlineAll(op, Code(op))
  ELSE << Ins("start") >>
         \o (IF op = "send_command" THEN SendCommandCode
             ELSE InlineAll(op, EndpointCode))
         \o << Ins("end") >>

NestAt(f) == NestCode(f.op)[f.pc]
Free(lock) == \A f \in Frames : lock \notin f.holds
NestAwaits == {"sleep?", "sleep", "send_json", "gather", "receive_json"}

\* a caller calls an operation, or a client connects
NestCall(op) ==
  /\ BagCardinality(calls) < MaxFrames
  /\ calls' = Push(Coroutine(op, 1, {}, "waiting"))
  /\ out' = EmptyDict
  /\ UNCHANGED << clock, connections, sessions, tasks, njumps >>

\* the event loop runs a coroutine whose wait is over; one that waits for
\* a lock only when the lock is free
NestResume(f) ==
  /\ f \in Frames
  /\ f.st = "waiting"
  /\ Running = {}
  /\ IF NestAt(f).kind = "acquire"
     THEN /\ Free(NestAt(f).arg)
          /\ calls' = Replace(f, Coroutine(f.op, f.pc + 1, f.holds \cup {NestAt(f).arg},
                                           "running"))
     ELSE calls' = Replace(f, Coroutine(f.op, f.pc + 1, f.holds, "running"))
  /\ out' = EmptyDict
  /\ UNCHANGED << clock, connections, sessions, tasks, njumps >>

\* task.cancel() on a waiting task; `async with` leaves on the way out
NestCancel(f) ==
  /\ f \in Frames
  /\ f.st = "waiting"
  /\ f.op \in TaskBodies \cup {"send_command"}
  /\ calls' = Pop(f)
  /\ out' = EmptyDict
  /\ UNCHANGED << clock, connections, sessions, tasks, njumps >>

\* the running coroutine executes the instruction it is at
NestStep(f) ==
  /\ f \in Frames
  /\ f.st = "running"
  /\ LET ins == NestAt(f)
         k == ins.kind
         on == Coroutine(f.op, f.pc + 1, f.holds, "running")
         wait == Coroutine(f.op, f.pc, f.holds, "waiting")
     IN CASE k = "acquire" ->
               calls' = IF Free(ins.arg)
                        THEN Replace(f, [on EXCEPT !.holds = @ \cup {ins.arg}])
                        ELSE Replace(f, wait)
          [] k = "release" -> calls' = Replace(f, [on EXCEPT !.holds = @ \ {ins.arg}])
          [] k = "access" -> calls' = Replace(f, on)
          [] k = "ret?" -> calls' = Replace(f, on) \/ calls' = Pop(f)
          [] k = "skip?" ->
               \/ calls' = Replace(f, on)
               \/ calls' = Replace(f, [on EXCEPT !.pc = @ + ins.arg])
          [] k = "sleep?" -> calls' = Replace(f, on) \/ calls' = Replace(f, wait)
          [] k \in NestAwaits \ {"sleep?"} -> calls' = Replace(f, wait)
          [] k = "spawn" ->
               calls' = IF BagCardinality(calls) < MaxFrames
                        THEN Replace(f, on) (+) SetToBag({Coroutine(ins.arg, 1, {}, "waiting")})
                        ELSE Replace(f, on)
          [] k = "end" -> calls' = Pop(f)
  /\ out' = EmptyDict
  /\ UNCHANGED << clock, connections, sessions, tasks, njumps >>

NestNext ==
  \/ \E op \in Operations \cup {"websocket_endpoint"} : NestCall(op)
  \/ \E f \in Frames : NestResume(f)
  \/ \E f \in Frames : NestCancel(f)
  \/ \E f \in Frames : NestStep(f)

NestSpec == Init /\ [][NestNext]_vars

\* ================================================================ claims
Open(session) ==
  {i \in DOMAIN session.pause_intervals : session.pause_intervals[i].end = None}

Started == {sid \in DOMAIN sessions : sessions[sid].start_time # None}

\* the instants at which the offset of a session is probed: now and later
ProbeTimes == {clock + d : d \in 0..ProbeTicks}

\* C1: in every reachable state each session has at most one PauseInterval
\* whose end is unset
AtMostOneOpenInterval ==
  \A sid \in DOMAIN sessions : Cardinality(Open(sessions[sid])) <= 1

\* C2: for a started session and probe times t1 <= t2, the offset does not
\* decrease from t1 to t2 while no interval is open, and is the same at t1
\* and t2 while an interval is open
OffsetMonotoneOrFrozen ==
  \A sid \in Started : \A t1 \in ProbeTimes : \A t2 \in ProbeTimes :
    t1 <= t2 =>
      IF Open(sessions[sid]) = {}
      THEN CalculateOffset(sessions[sid], t1) <= CalculateOffset(sessions[sid], t2)
      ELSE CalculateOffset(sessions[sid], t1) = CalculateOffset(sessions[sid], t2)

\* what an operation leaves behind when it changes nothing and sends nothing
Untouched(e) ==
  /\ e.S = sessions
  /\ e.T = tasks
  /\ e.out = EmptyDict
  /\ ~e.susp

\* the devices a lookup can resolve to
Devices == UNION {Range(l) : l \in AuthAnswers}

\* C3: of all start_session runs on a session exactly the one that finds
\* start_time unset (and the schedule reached) sets it and sends one PLAY
\* with offset 0 to each prequeue user that has a Participant; a run on a
\* started session, also one racing a start suspended in its fan-out,
\* changes nothing, sends nothing and arms no pause task
OneStartFansOut ==
  \A sid \in DOMAIN sessions : \A live \in LiveSets :
  \A ta \in Readings(clock) : \A tb \in Readings(ta) : \A tc \in Readings(tb) :
    LET session == sessions[sid]
        e == StartSession(sessions, tasks, live, sid, ta, tb, tc)
    IN IF session.start_time # None
       THEN e.result = "-" /\ Untouched(e)
       ELSE session.scheduled_start_time <= ta =>
              /\ e.result = "-"
              /\ e.S[sid].start_time = tb
              /\ DOMAIN e.out =
                   Range(session.prequeue) \cap DOMAIN session.participants
              /\ \A u \in DOMAIN e.out :
                   e.out[u] = WSCommand("play", 0, session.filename,
                                        session.participants[u].device)

\* the scheduled-start task is suspended in its fan-out of two PLAYs
StartFanOutInFlight ==
  \E tid \in DOMAIN tasks :
    /\ IsTask(tid, "start", "send")
    /\ Cardinality(DOMAIN out) = 2
    /\ \A u \in DOMAIN out : out[u].type = "play" /\ out[u].offset = 0

\* a step in which start_session runs on session sid
StartStep(sid) ==
  \E live \in LiveSets :
    \/ StartSessionCall(sid, live)
    \/ \E tid \in DOMAIN tasks :
         /\ tasks[tid].sid = sid
         /\ RunStart(tid, live) \/ WakeStart(tid, live)

\* C4: start_time changes at most once, from unset to set, only in a step
\* of start_session and to a reading of the clock that is not before
\* scheduled_start_time; once set it never changes
StartTimeSetOnce ==
  [][\A sid \in DOMAIN sessions :
       /\ sid \in DOMAIN sessions'
       /\ sessions[sid].start_time # None =>
            sessions'[sid].start_time = sessions[sid].start_time
       /\ (sessions[sid].start_time = None /\ sessions'[sid].start_time # None) =>
            /\ StartStep(sid)
            /\ sessions[sid].scheduled_start_time <= sessions'[sid].start_time
            /\ clock <= sessions'[sid].start_time
            /\ sessions'[sid].start_time <= clock'
    ]_vars

\* a session scheduled for later than its creation has been started, and
\* its start task has finished
StartedOnSchedule ==
  \E sid \in Started :
    /\ sessions[sid].scheduled_start_time > 0
    /\ sessions[sid].start_time >= sessions[sid].scheduled_start_time
    /\ sessions[sid].start_task \in DOMAIN tasks
    /\ tasks[sessions[sid].start_task].pc = "done"

\* C5: in every reachable state a started session has an empty prequeue,
\* also when an add_participant was suspended in its lookup across the start
StartedHasEmptyPrequeue ==
  \A sid \in Started : sessions[sid].prequeue = <<>>

\* the latest step was the initial fan-out of a start, and the
\* add_participant of a user not yet stored is still waiting for its lookup
AddAcrossStart ==
  \E sid \in Started : \E f \in Frames :
    /\ f.pc = "store" /\ f.sid = sid
    /\ f.username \notin DOMAIN sessions[sid].participants
    /\ sessions[sid].pause_intervals = <<>>
    /\ out # EmptyDict
    /\ \A u \in DOMAIN out : out[u].type = "play" /\ out[u].offset = 0

\* C6: start_session at a time before scheduled_start_time fails with
\* ValueError; the session (start_time, prequeue, participants) and the
\* tasks are as before and no command is sent
FutureStartRejected ==
  \A sid \in DOMAIN sessions : \A live \in LiveSets :
  \A ta \in Readings(clock) : \A tb \in Readings(ta) : \A tc \in Readings(tb) :
    sessions[sid].scheduled_start_time > ta =>
      LET e == StartSession(sessions, tasks, live, sid, ta, tb, tc) IN
      e.result = "ValueError" /\ Untouched(e)

\* a session with a queued participant is asked to start before its time
EarlyStartWithQueue ==
  \E sid \in DOMAIN sessions :
    /\ sessions[sid].scheduled_start_time > clock
    /\ sessions[sid].prequeue # <<>>
    /\ StartSession(sessions, tasks, Users, sid, clock, clock, clock).result
         = "ValueError"

\* C7: add_participant stores the Participant; before the start it queues
\* the username and sends nothing; after the start it sends one PLAY, to
\* the joiner only, with the offset of the session at the time of storing,
\* and leaves the prequeue as it is
AddQueuesOrCatchesUp ==
  \A sid \in DOMAIN sessions : \A u \in Users : \A d \in Devices :
  \A t \in Readings(clock) :
    LET session == sessions[sid]
        e == AddStoreEffect(sessions, tasks, sid, u, d, t)
        after == e.S[sid]
    IN /\ e.result = "-" /\ e.T = tasks /\ ~e.susp
       /\ DOMAIN after.participants = DOMAIN session.participants \cup {u}
       /\ after.participants[u] = [username |-> u, device |-> d]
       /\ \A v \in DOMAIN session.participants \ {u} :
            after.participants[v] = session.participants[v]
       /\ IF session.start_time = None
          THEN /\ u \in Range(after.prequeue)
               /\ Range(after.prequeue) = Range(session.prequeue) \cup {u}
               /\ e.out = EmptyDict
          ELSE /\ after.prequeue = session.prequeue
               /\ DOMAIN e.out = {u}
               /\ e.out[u] = WSCommand("play", CalculateOffset(session, t),
                                       session.filename, d)

\* the latest step caught one joiner up with a PLAY at an offset above 0
\* while another participant, who got nothing, was already in the session
LateJoinerCaughtUp ==
  \E sid \in Started : \E u \in Users :
    /\ DOMAIN out = {u}
    /\ out[u].type = "play" /\ out[u].offset > 0
    /\ sessions[sid].pause_intervals = <<>>
    /\ Cardinality(DOMAIN sessions[sid].participants) = 2

\* C9: start_session, pause_session, resume_session and add_participant
\* with an id that is not registered fail with KeyError; the sessions and
\* the tasks are as before, no task is created and no command is sent
UnknownSessionRejected ==
  \A sid \in AllIds \ DOMAIN sessions : \A live \in LiveSets :
  \A ta \in Readings(clock) : \A tb \in Readings(ta) : \A tc \in Readings(tb) :
    /\ LET e == StartSession(sessions, tasks, live, sid, ta, tb, tc) IN
       e.result = "KeyError" /\ Untouched(e)
    /\ LET e == PauseSession(sessions, tasks, live, sid, ta) IN
       e.result = "KeyError" /\ Untouched(e)
    /\ LET e == ResumeSession(sessions, tasks, live, sid, ta, tb, tc) IN
       e.result = "KeyError" /\ Untouched(e)
    /\ \A c \in ClientNames : \A clients \in AuthAnswers :
         AddLookup(sessions, sid, clients, c)
           = [result |-> "KeyError", device |-> NoDevice]

\* a session with a participant and a sleeping task is there when an
\* operation is called with an id nobody has
UnknownIdBesideLiveSession ==
  /\ Sleeping # {}
  /\ \E sid \in DOMAIN sessions : sessions[sid].participants # EmptyDict
  /\ \E x \in AllIds \ DOMAIN sessions :
       ResumeSession(sessions, tasks, Users, x, clock, clock, clock).result
         = "KeyError"

\* the auto-resume tasks of a session that have neither finished nor been
\* cancelled
PendingResumes(T, sid) ==
  {i \in DOMAIN T : T[i].kind = "resume" /\ T[i].sid = sid /\ Pending(T[i])}

\* C10: a pause_session on an existing session appends exactly one interval
\* with end unset; at most one auto-resume task of a session is pending,
\* the one session.resume_task references, before and after every pause
PauseSupersedesAutoResume ==
  \A sid \in DOMAIN sessions :
    /\ PendingResumes(tasks, sid) \subseteq {sessions[sid].resume_task}
    /\ \A live \in LiveSets : \A t \in Readings(clock) :
         LET e == PauseSession(sessions, tasks, live, sid, t) IN
         /\ e.result = "-"
         /\ e.S[sid].pause_intervals =
              Append(sessions[sid].pause_intervals, [start |-> t, end |-> None])
         /\ PendingResumes(e.T, sid) = {e.S[sid].resume_task}

\* two pauses in a row: both intervals are open and one auto-resume is
\* pending, the one of the second pause
SecondPauseSuperseded ==
  \E sid \in DOMAIN sessions :
    /\ Open(sessions[sid]) = {1, 2}
    /\ PendingResumes(tasks, sid) = {sessions[sid].resume_task}
    /\ tasks[sessions[sid].resume_task].wake
         = sessions[sid].pause_intervals[2].start + PauseSeconds * 1000 * TicksPerMs
    /\ sessions[sid].pause_intervals[2].start > sessions[sid].pause_intervals[1].start

\* the devices a user has registered right now
Authorized(u) == Range(GetAuthorizedClients(connections, u))

NoMatch(u, c) == \A d \in Authorized(u) : d.title # c

\* C8: add_participant fails with ValueError when none of the devices the
\* user has registered right now carries the requested title (none at all
\* without a connection), and then changes no session and sends nothing;
\* a Participant is only ever stored with a device of the user's
\* authorized list at that time
JoinNeedsAuthorizedDevice ==
  [][\A sid \in DOMAIN sessions : \A u \in Users :
       /\ \A c \in ClientNames :
            NoMatch(u, c) =>
              /\ AddLookup(sessions, sid, GetAuthorizedClients(connections, u), c)
                   = [result |-> "ValueError", device |-> NoDevice]
              /\ Join(sid, u, c) => (UNCHANGED sessions /\ out' = EmptyDict)
       /\ (/\ u \in DOMAIN sessions'[sid].participants
           /\ \/ u \notin DOMAIN sessions[sid].participants
              \/ sessions'[sid].participants[u] # sessions[sid].participants[u])
            => /\ sessions'[sid].participants[u].device \in Authorized(u)
               /\ \E c \in ClientNames : sessions'[sid].participants[u].device.title = c
    ]_vars

\* one user has joined with a device of their registered list while
\* another, connected but with nothing registered, is turned away
JoinedAndTurnedAway ==
  \E sid \in DOMAIN sessions : \E u \in Users : \E v \in Users :
    /\ u \in DOMAIN sessions[sid].participants
    /\ sessions[sid].participants[u].device \in Authorized(u)
    /\ v \in DOMAIN connections
    /\ v \notin DOMAIN sessions[sid].participants
    /\ \A c \in ClientNames :
         AddLookup(sessions, sid, GetAuthorizedClients(connections, v), c).result
           = "ValueError"

\* C11: resume_session on a session none of whose intervals is open (no
\* interval at all, or every pause closed) changes no interval, no session
\* and no task, arms no pause task and sends no command
ResumeWithoutPauseIsNoOp ==
  \A sid \in DOMAIN sessions : \A live \in LiveSets :
  \A ta \in Readings(clock) : \A tb \in Readings(ta) : \A tc \in Readings(tb) :
    Open(sessions[sid]) = {} =>
      LET e == ResumeSession(sessions, tasks, live, sid, ta, tb, tc) IN
      e.result = "-" /\ Untouched(e)

\* a started session with participants whose one pause has been closed
\* and whose next hourly pause is armed
ResumedSessionAtRest ==
  \E sid \in Started :
    /\ Len(sessions[sid].pause_intervals) = 1
    /\ Open(sessions[sid]) = {}
    /\ sessions[sid].participants # EmptyDict
    /\ sessions[sid].pause_task \in DOMAIN tasks
    /\ tasks[sessions[sid].pause_task].pc = "sleep"

\* what a resume_session that finds its last interval open leaves behind,
\* apart from the offset its PLAYs carry: the interval closed at ta, every
\* other interval and the participants as before, one PLAY per participant
\* of the snapshot, with that participant's device, and nobody else
ResumeClosesAndPlays(sid, e, ta) ==
  LET session == sessions[sid]
      n == Len(session.pause_intervals)
  IN /\ e.result = "-"
     /\ e.S[sid].pause_intervals =
          [session.pause_intervals EXCEPT ![n].end = ta]
     /\ e.S[sid].participants = session.participants
     /\ DOMAIN e.out = DOMAIN session.participants
     /\ \A u \in DOMAIN e.out :
          /\ e.out[u].type = "play"
          /\ e.out[u].filename = session.filename
          /\ e.out[u].device = session.participants[u].device
          /\ \A v \in DOMAIN e.out : e.out[v].offset = e.out[u].offset

\* C12 as stated: a resume_session that finds its last interval open sets
\* its end to the time t and sends one PLAY to each participant of the
\* snapshot and to nobody else, all with the offset of the session at t
ResumePlaysOffsetAtEnd ==
  \A sid \in DOMAIN sessions : \A live \in LiveSets :
  \A ta \in Readings(clock) : \A tb \in Readings(ta) : \A tc \in Readings(tb) :
    LastOpen(sessions[sid]) =>
      LET e == ResumeSession(sessions, tasks, live, sid, ta, tb, tc) IN
      /\ ResumeClosesAndPlays(sid, e, ta)
      /\ \A u \in DOMAIN e.out :
           e.out[u].offset = CalculateOffset(e.S[sid], ta)

\* C12 amended: a resume_session that finds its last interval open sets
\* its end to a reading t of the clock and sends one PLAY to each
\* participant of the snapshot and to nobody else, all with the same
\* offset: that of the session, the interval closed at t, at a second
\* reading t2 >= t of the clock taken in the same critical section
ResumePlaysOffsetOnce ==
  \A sid \in DOMAIN sessions : \A live \in LiveSets :
  \A ta \in Readings(clock) : \A tb \in Readings(ta) : \A tc \in Readings(tb) :
    LastOpen(sessions[sid]) =>
      LET e == ResumeSession(sessions, tasks, live, sid, ta, tb, tc) IN
      /\ ResumeClosesAndPlays(sid, e, ta)
      /\ \A u \in DOMAIN e.out :
           e.out[u].offset = CalculateOffset(e.S[sid], tb)

\* a resume is suspended in its fan-out of two PLAYs; the clock was read
\* a second time after the interval was closed, and the offset sent is
\* the one of the second reading
ResumeFanOutInFlight ==
  \E sid \in Started :
    LET session == sessions[sid]
        n == Len(session.pause_intervals)
    IN /\ n > 0
       /\ session.pause_intervals[n].end # None
       /\ session.pause_intervals[n].end < clock
       /\ DOMAIN out = DOMAIN session.participants
       /\ Cardinality(DOMAIN out) = 2
       /\ \A u \in DOMAIN out :
            /\ out[u].type = "play"
            /\ out[u].offset = CalculateOffset(session, clock)
            /\ out[u].offset # CalculateOffset(session, session.pause_intervals[n].end)

\* the status reports that can arrive now
Reports ==
  {Report(u, fn, o, clock, th) :
     u \in Reporters \cup {NoName}, fn \in StatusFilenames,
     o \in ReportedOffsets, th \in Thresholds}

\* a run of handle_client_status_update that can happen now: the report,
\* the sessions the run starts from, whether it continues a suspended call
\* (which has then sent a SEEK already), and what the run does
StatusCase(r, ids, resumed, run) ==
  [report |-> r, ids |-> ids, resumed |-> resumed, run |-> run]

StatusCases ==
  UNION {{StatusCase(r, SessionList(sessions), FALSE, run) :
            run \in HandleClientStatusUpdate(sessions, Live(connections), r, clock)}
         : r \in Reports}
  \cup
  UNION {{StatusCase(f.report, f.rest, TRUE, run) :
            run \in StatusRuns(sessions, Live(connections), f.report, f.rest,
                               clock, f.adjusted, <<>>)}
         : f \in {g \in Frames : g.pc = "seek"}}

\* the sessions a run went through
Visited(c) == {c.ids[i] : i \in 1..(Len(c.ids) - Len(c.run.rest))}

\* the SEEKs of a run that correct the reporter against session sid
SeeksFor(c, sid) == {i \in DOMAIN c.run.sent : c.run.sent[i].sid = sid}

\* the reporter of c participates in session sid, which has exactly the
\* reported file name
Concerns(c, sid) ==
  /\ sessions[sid].filename = c.report.filename
  /\ c.report.username \in DOMAIN sessions[sid].participants

\* |adjusted - server_offset| for session sid, server_offset read at t1
\* and adjusted at t2
Drift(r, sid, t1, t2) ==
  Abs(r.offset + MsBetween(t2, r.receive_time) - CalculateOffset(sessions[sid], t1))

\* the SEEKs and silences of run c about the sessions it went through:
\* every SEEK goes to the reporter, for a session that concerns them, with
\* the server offset of that session and their device there, for a drift
\* above the threshold; a session gets one SEEK at most, and none only
\* for a drift within the threshold (equality included)
SeeksFollowDrift(c) ==
  LET r == c.report
      span == clock..c.run.now
  IN /\ \A i \in DOMAIN c.run.sent :
          LET x == c.run.sent[i] IN
          /\ x.to = r.username
          /\ x.sid \in Visited(c)
          /\ Concerns(c, x.sid)
          /\ \E t1 \in span : \E t2 \in span :
               /\ t1 <= t2
               /\ Drift(r, x.sid, t1, t2) > r.threshold_ms
               /\ x.cmd = WSCommand("seek", CalculateOffset(sessions[x.sid], t1),
                                    sessions[x.sid].filename,
                                    sessions[x.sid].participants[r.username].device)
     /\ \A sid \in Visited(c) :
          /\ Cardinality(SeeksFor(c, sid)) <= 1
          /\ (Concerns(c, sid) /\ SeeksFor(c, sid) = {}) =>
               \E t1 \in span : \E t2 \in span :
                 t1 <= t2 /\ Drift(r, sid, t1, t2) <= r.threshold_ms

\* C13 as stated: a status report is answered by no SEEK when the drift is
\* within the threshold and by exactly one SEEK, to the reporter, with the
\* server offset, when it is above: one report, one SEEK at most
OneSeekPerReport ==
  \A c \in StatusCases :
    /\ SeeksFollowDrift(c)
    /\ Len(c.run.sent) <= (IF c.resumed THEN 0 ELSE 1)

\* C13 amended: a status report is compared with every session of exactly
\* the reported file name in which the reporter participates; for each of
\* them no SEEK is sent when the drift is within the threshold (equality
\* included) and exactly one SEEK, to the reporter, with that session's
\* server offset, when it is above.  server_offset = offset(session, t1)
\* and adjusted = reported_offset + (t2 - receive_time) for two readings
\* t1 <= t2 of the clock
OneSeekPerSession ==
  \A c \in StatusCases : SeeksFollowDrift(c)

\* a report was answered with a SEEK about s1, the call is suspended in
\* that send, and s2, of which the reporter is a participant as well, still
\* is to come and has drifted as far
SecondSeekToCome ==
  \E f \in Frames :
    /\ f.pc = "seek"
    /\ f.rest = << "s2" >>
    /\ DOMAIN out = {f.report.username}
    /\ out[f.report.username].type = "seek"
    /\ \E run \in StatusRuns(sessions, Live(connections), f.report, f.rest,
                              clock, f.adjusted, <<>>) :
         Len(run.sent) = 1 /\ run.sent[1].sid = "s2"

\* C14: handle_client_status_update hands over commands for the reporter
\* only; none when the username is absent, when no session has exactly the
\* reported file name or when the reporter participates in none of those;
\* a session whose file name only overlaps the reported one causes no SEEK
SeekOnlyToReporter ==
  \A c \in StatusCases :
    LET r == c.report IN
    /\ \A i \in DOMAIN c.run.sent :
         /\ c.run.sent[i].to = r.username
         /\ sessions[c.run.sent[i].sid].filename = r.filename
         /\ c.run.sent[i].cmd.filename = r.filename
         /\ r.username \in DOMAIN sessions[c.run.sent[i].sid].participants
    /\ DOMAIN LastSent(c.run.sent) \subseteq {r.username}
    /\ (\/ r.username = NoName
        \/ \A sid \in DOMAIN sessions : ~Concerns(c, sid))
         => c.run.sent = <<>> /\ ~c.run.susp

\* the reporter is in two sessions whose file names overlap, one of them
\* with a second participant, and was just sent a SEEK about one session
\* while a report naming the other file would cause one as well
SeekBesideOverlap ==
  /\ DOMAIN sessions = StatusIds
  /\ sessions["s1"].filename # sessions["s2"].filename
  /\ \E u \in Reporters :
       /\ u \in DOMAIN sessions["s1"].participants
       /\ u \in DOMAIN sessions["s2"].participants
       /\ DOMAIN sessions["s1"].participants # {u}
       /\ DOMAIN out = {u}
       /\ out[u].type = "seek"
       /\ out[u].filename = sessions["s2"].filename

\* the sends in progress on the Connection of u, and those that will
\* never return
InProgress(u) == {i \in DOMAIN tasks : tasks[i].conn = u /\ tasks[i].pc = "write"}
Blocked(u) == {i \in InProgress(u) : tasks[i].fate = "blocks"}

\* C15: broadcast_many creates exactly one send task, with the
\* recipient's own command, for every name of the command map that has a
\* connection and none for the others; a finished send wrote that
\* command once; and the call returns normally once all its sends have
\* finished, whether they completed or raised
BatchIsolatesFailures ==
  /\ \A cmd_map \in CmdMaps :
       LET T1 == BroadcastMany(connections, tasks, cmd_map, 0)
           new == DOMAIN T1 \ DOMAIN tasks
       IN /\ \A i \in DOMAIN tasks : T1[i] = tasks[i]
          /\ {T1[i].conn : i \in new} = DOMAIN cmd_map \cap DOMAIN connections
          /\ \A i \in new : \A j \in new : T1[i].conn = T1[j].conn => i = j
          /\ \A i \in new : T1[i].cmd = cmd_map[T1[i].conn] /\ T1[i].pc = "new"
  /\ \A i \in DOMAIN tasks : \A j \in DOMAIN tasks :
       (tasks[i].batch = tasks[j].batch /\ tasks[i].conn = tasks[j].conn) => i = j
  /\ \A i \in DOMAIN tasks :
       /\ tasks[i].conn \in Users
       /\ tasks[i].cmd = CmdFor(tasks[i].conn)
       /\ tasks[i].pc = "done" <=> (tasks[i].fate = "ok" /\ tasks[i].pc # "write")
  /\ \A f \in Frames :
       /\ \A i \in f.tids : tasks[i].batch = f.batch
       /\ Gather(tasks, f.tids) # "raised"
       /\ (\A i \in f.tids : Finished(tasks[i])) => ENABLED GatherReturn(f)

\* a call whose command map named two connected users is about to return:
\* the send to one of them raised, the other one got its command
BatchWithFailureReturns ==
  \E f \in Frames :
    /\ Cardinality(f.tids) = 2
    /\ \E i \in f.tids : tasks[i].pc = "failed"
    /\ \E i \in f.tids : tasks[i].pc = "done"
    /\ Gather(tasks, f.tids) = "returned"

\* C16: every send of a batch finishes unless a send on its own
\* Connection never returns; a send that blocks on another Connection
\* does not hold it up
BlockedSendDelaysNobody ==
  \A tid \in SendIds :
    (tid \in DOMAIN tasks /\ ~Finished(tasks[tid]))
      ~> (tid \in DOMAIN tasks
          /\ (Finished(tasks[tid]) \/ Blocked(tasks[tid].conn) # {}))

\* of the two sends of one batch one never returns and the other is done
DoneBesideBlocked ==
  \E i \in DOMAIN tasks : \E j \in DOMAIN tasks :
    /\ tasks[i].batch = tasks[j].batch
    /\ tasks[i].conn # tasks[j].conn
    /\ i \in Blocked(tasks[i].conn)
    /\ tasks[j].pc = "done"

\* C17: in every reachable state at most one send is in progress on each
\* Connection, however many send tasks there are for it
OneWriterPerConnection ==
  \A u \in Users : Cardinality(InProgress(u)) <= 1

\* a send is in progress on one Connection while another send waits for
\* its lock, and a send on the other Connection is in progress as well
OverlapAcrossConnections ==
  \E u \in Users : \E v \in Users :
    /\ u # v
    /\ InProgress(u) # {}
    /\ Waiting(tasks, u) # {}
    /\ InProgress(v) # {}

\* C18: _schedule_next_pause on a started session whose latest interval
\* is closed, with elapsed = offset(session, now) and k = elapsed \div 1 h
\* + 1, arms a pause task exactly when k = 1 or duration_ms - k * 1 h is
\* above 30 minutes; the task sleeps max(0, k * 1 h - elapsed) and
\* session.pause_task refers to it
PauseArmedByRule ==
  \A sid \in Started :
    ~LastOpen(sessions[sid]) =>
      LET session == sessions[sid]
          elapsed == CalculateOffset(session, clock)
          k == elapsed \div 3600000 + 1
          sp == ScheduleNextPause(sessions, tasks, sid, clock)
          new == DOMAIN sp.T \ DOMAIN tasks
      IN IF k = 1 \/ session.duration_ms - k * 3600000 > 1800000
         THEN /\ Cardinality(new) = 1
              /\ \A i \in new :
                   /\ sp.T[i] = [kind |-> "pause", sid |-> sid, pc |-> "sleep",
                                  wake |-> clock + Max(0, k * 3600000 - elapsed)
                                                     * TicksPerMs]
                   /\ sp.S = [sessions EXCEPT ![sid].pause_task = i]
              /\ \A i \in DOMAIN tasks : sp.T[i] = tasks[i]
         ELSE sp.S = sessions /\ sp.T = tasks

\* a session of exactly one hour that has just started has its pause at
\* the end of the first hour armed, although nothing remains after it
FirstPauseArmedAnyway ==
  \E sid \in Started :
    LET session == sessions[sid] IN
    /\ session.duration_ms = 3600000
    /\ session.pause_intervals = <<>>
    /\ session.pause_task \in DOMAIN tasks
    /\ tasks[session.pause_task].kind = "pause"
    /\ tasks[session.pause_task].wake = 3600000 * TicksPerMs
    /\ clock = 0

\* C19: every open PauseInterval is going to be closed: it is the latest
\* interval of its session, the one resume_session closes, and the
\* auto-resume armed for the session has neither run nor been cancelled
OpenIntervalAwaitsResume ==
  \A sid \in DOMAIN sessions : \A i \in Open(sessions[sid]) :
    /\ i = Len(sessions[sid].pause_intervals)
    /\ PendingResumes(tasks, sid) # {}

\* C20: while a session has an open PauseInterval no PLAY is handed over
\* for any of its participants, a participant who joins during the pause
\* included
NoPlayWhilePaused ==
  \A sid \in DOMAIN sessions :
    Open(sessions[sid]) # {} =>
      \A u \in DOMAIN out \cap DOMAIN sessions[sid].participants :
        out[u].type # "play"

\* command cmd is the one for user u about session: the file of the
\* session, the device of u's Participant there, no offset on a PAUSE and
\* an offset of 0 or more milliseconds on a PLAY or a SEEK
OwnCommand(cmd, session, u) ==
  /\ u \in DOMAIN session.participants
  /\ cmd.filename = session.filename
  /\ cmd.device = session.participants[u].device
  /\ cmd.type \in {"play", "pause", "seek"}
  /\ cmd.type = "pause" => cmd.offset = None
  /\ cmd.type \in {"play", "seek"} => cmd.offset \in Nat

OwnCommands(e, sid, types) ==
  \A u \in DOMAIN e.out :
    OwnCommand(e.out[u], e.S[sid], u) /\ e.out[u].type \in types

\* C21: every command start_session, pause_session, resume_session,
\* add_participant and handle_client_status_update hand over for a user
\* carries the file name of the session and the device of that user's own
\* Participant there, as it is when the command is built; a PAUSE has no
\* offset, a PLAY and a SEEK have an offset of 0 or more
CommandsCarryOwnDevice ==
  /\ \A sid \in DOMAIN sessions :
     \A ta \in Readings(clock) : \A tb \in Readings(ta) : \A tc \in Readings(tb) :
       LET live == Live(connections) IN
       /\ OwnCommands(StartSession(sessions, tasks, live, sid, ta, tb, tc), sid, {"play"})
       /\ OwnCommands(PauseSession(sessions, tasks, live, sid, ta), sid, {"pause"})
       /\ OwnCommands(ResumeSession(sessions, tasks, live, sid, ta, tb, tc), sid, {"play"})
       /\ \A u \in Users : \A c \in ClientNames :
            LET l == AddLookup(sessions, sid, GetAuthorizedClients(connections, u), c)
                e == AddStoreEffect(sessions, tasks, sid, u, l.device, ta)
            IN l.result = "-" =>
                 /\ OwnCommands(e, sid, {"play"})
                 /\ DOMAIN e.out \subseteq {u}
  /\ \A c \in StatusCases : \A i \in DOMAIN c.run.sent :
       LET x == c.run.sent[i] IN
       OwnCommand(x.cmd, sessions[x.sid], x.to) /\ x.cmd.type = "seek"

\* the latest step paused a session of two participants with different
\* devices, each PAUSE carrying the device of its recipient, and a report
\* of one of them would now be answered with a SEEK
PausesWithOwnDevices ==
  \E sid \in DOMAIN sessions : \E u \in Users : \E v \in Users :
    /\ DOMAIN out = {u, v}
    /\ DOMAIN sessions[sid].participants = {u, v}
    /\ out[u].type = "pause" /\ out[v].type = "pause"
    /\ out[u].filename = sessions[sid].filename
    /\ out[u].device # out[v].device
    /\ out[u].device = sessions[sid].participants[u].device
    /\ out[v].device = sessions[sid].participants[v].device
    /\ \E c \in StatusCases : c.run.sent # <<>>

\* the sum of w[i] over the indices i of I
RECURSIVE SumOver(_, _)
SumOver(I, w) ==
  IF I = {} THEN 0
  ELSE LET i == CHOOSE j \in I : TRUE IN w[i] + SumOver(I \ {i}, w)

\* the whole milliseconds of pause that count at time t: a closed interval
\* with its own length, an open one with its length up to t
PauseTotal(session, t) ==
  LET iv == session.pause_intervals
      closed == {i \in DOMAIN iv : iv[i].end # None}
      open == DOMAIN iv \ closed
  IN SumOver(closed, [i \in closed |-> MsBetween(iv[i].end, iv[i].start)])
     + SumOver(open, [i \in open |-> MsBetween(t, iv[i].start)])

\* C22: at every time t the program can pass (a reading of the clock, now
\* or later) _calculate_offset(session, t) is 0 when start_time is unset
\* and otherwise max(0, (t - start_time) - the sum over every pause
\* interval of ((end if set, else t) - start)), each duration in whole
\* milliseconds; it is never negative and never above t - start_time
OffsetIsElapsedMinusPauses ==
  \A sid \in DOMAIN sessions : \A t \in ProbeTimes :
    LET session == sessions[sid]
        o == CalculateOffset(session, t)
        elapsed == MsBetween(t, session.start_time)
    IN IF session.start_time = None THEN o = 0
       ELSE /\ o = Max(0, elapsed - PauseTotal(session, t))
            /\ o >= 0
            /\ o <= elapsed
            /\ o * TicksPerMs <= t - session.start_time

\* a session that was paused before it started and is paused again: the
\* pauses outweigh the time since the start, and the offset is clamped to 0
OffsetClamped ==
  \E sid \in Started : \E t \in ProbeTimes :
    LET session == sessions[sid] IN
    /\ Len(session.pause_intervals) = 2
    /\ session.pause_intervals[1].end # None
    /\ session.pause_intervals[2].end = None
    /\ MsBetween(t, session.start_time) > 0
    /\ MsBetween(t, session.start_time) - PauseTotal(session, t) < 0
    /\ CalculateOffset(session, t) = 0

\* C23: stop_background_tasks leaves start_task, pause_task and
\* resume_task of every session None and the rest of the sessions as it
\* was; every task a handle referenced has been cancelled unless it had
\* finished already, every other task is left alone, and the call returns
\* without having suspended
StopSweepsEveryHandle ==
  LET e == StopBackgroundTasks(sessions, tasks) IN
  /\ e.result = "-" /\ ~e.susp /\ e.out = EmptyDict
  /\ DOMAIN e.S = DOMAIN sessions
  /\ \A sid \in DOMAIN sessions :
       /\ e.S[sid].start_task = None
       /\ e.S[sid].pause_task = None
       /\ e.S[sid].resume_task = None
       /\ [e.S[sid] EXCEPT !.start_task = sessions[sid].start_task,
                           !.pause_task = sessions[sid].pause_task,
                           !.resume_task = sessions[sid].resume_task] = sessions[sid]
  /\ DOMAIN e.T = DOMAIN tasks
  /\ \A i \in DOMAIN tasks :
       IF i \in Handles(sessions) /\ Pending(tasks[i])
       THEN ~Pending(e.T[i]) /\ e.T[i] = CancelTask(tasks, i)[i]
       ELSE e.T[i] = tasks[i]

\* a paused session after the sweep: its interval is open, its handles
\* are None and no task is pending
SweptWhilePaused ==
  \E sid \in Started :
    /\ LastOpen(sessions[sid])
    /\ sessions[sid].start_task = None
    /\ sessions[sid].pause_task = None
    /\ sessions[sid].resume_task = None
    /\ \A i \in DOMAIN tasks : ~Pending(tasks[i])

\* the verifier answered valid: a 200 whose body has "valid": true
AnsweredValid(t) == t.answer = Response(200, "true")

Complete(l) ==
  {i \in DOMAIN l : l[i].kind # "other" /\ l[i].title # "" /\ l[i].id # ""}

NoAwaitUnderLock ==
  \A f \in Frames :
    /\ (f.st = "waiting" /\ At(f).kind \in Awaits) => ~f.holds
    /\ f.st = "waiting" => At(f).kind # "acquire"
    /\ (f.st = "running" /\ At(f).kind = "acquire") => LockFree

\* the PAUSE fan-out of a pause_session is in progress while another
\* operation is inside its critical section
SendBesideCriticalSection ==
  \E f \in Frames : \E g \in Frames :
    /\ f.op = "pause_session" /\ f.st = "waiting" /\ At(f).kind = "send?"
    /\ g.st = "running" /\ g.holds /\ At(g).kind = "access"

\* C27: every read or write of the sessions that an operation or a task
\* makes happens while it holds the session lock
AccessUnderLock ==
  \A f \in Frames : (f.st = "running" /\ At(f).kind = "access") => f.holds

\* the tasks of one kind of a session that have neither finished nor been
\* cancelled, and the handle of the session for that kind
PendingOf(T, kind, sid) ==
  {i \in DOMAIN T : T[i].kind = kind /\ T[i].sid = sid /\ Pending(T[i])}

HandleOf(session, kind) ==
  CASE kind = "start" -> session.start_task
    [] kind = "pause" -> session.pause_task
    [] kind = "resume" -> session.resume_task

\* C28: in every reachable state each session has at most one pending
\* task of each kind (scheduled start, scheduled pause, auto-resume), and
\* that task is the one the session's handle of the kind references
OnePendingTaskPerKind ==
  \A sid \in DOMAIN sessions : \A kind \in {"start", "pause", "resume"} :
    PendingOf(tasks, kind, sid) \subseteq {HandleOf(sessions[sid], kind)}

\* C29: _schedule_next_pause on a session whose latest interval is open
\* creates no task and changes no session, pause_task included; and no
\* step arms a pause task for a session whose latest interval is open
\* after it: a pause task is armed only by a start or a resume that
\* leaves the latest interval closed
NoPauseArmedWhilePaused ==
  /\ [](\A sid \in DOMAIN sessions : \A t \in Readings(clock) :
          LastOpen(sessions[sid]) =>
            ScheduleNextPause(sessions, tasks, sid, t) = [S |-> sessions, T |-> tasks])
  /\ [][\A sid \in DOMAIN sessions :
          (/\ sid \in DOMAIN sessions'
           /\ sessions'[sid].pause_task # sessions[sid].pause_task)
            => /\ ~LastOpen(sessions'[sid])
               /\ sessions'[sid].pause_task \in DOMAIN tasks'
               /\ tasks'[sessions'[sid].pause_task].kind = "pause"
               /\ tasks'[sessions'[sid].pause_task].pc = "sleep"
       ]_vars

\* a session that was paused before it was started: the start has run
\* _schedule_next_pause, which armed nothing, and an auto-resume is pending
PausedStartArmsNothing ==
  \E sid \in Started :
    /\ LastOpen(sessions[sid])
    /\ sessions[sid].pause_intervals[Len(sessions[sid].pause_intervals)].start
         < sessions[sid].start_time
    /\ sessions[sid].pause_task = None
    /\ PendingResumes(tasks, sid) # {}
    /\ calls = EmptyBag
    /\ \A i \in DOMAIN tasks : tasks[i].pc # "send"

\* what start_session does when the start task calls it at t0 or later
ScheduledCallStarts(sid, t0) ==
  \A live \in LiveSets :
  \A ta \in Readings(t0) : \A tb \in Readings(ta) : \A tc \in Readings(tb) :
    LET e == StartSession(sessions, tasks, live, sid, ta, tb, tc) IN
    /\ e.result = "-"
    /\ IF sessions[sid].start_time = None
       THEN e.S[sid].start_time = tb /\ tb >= sessions[sid].scheduled_start_time
       ELSE Untouched(e)

\* C30: every created session is started in the end, unless
\* stop_background_tasks has swept its start task; whenever the start task
\* calls start_session, at its first run or after its sleep, the time is
\* not before scheduled_start_time, so the call does not fail: it sets
\* start_time, or changes nothing when the session is started already
ScheduledStartHappens ==
  /\ \A sid \in SessionIds :
       (sid \in DOMAIN sessions)
         ~> (sid \in DOMAIN sessions
             /\ (sessions[sid].start_time # None \/ sessions[sid].start_task = None))
  /\ [](\A tid \in DOMAIN tasks :
          LET sid == tasks[tid].sid IN
          /\ IsTask(tid, "start", "sleep") =>
               ScheduledCallStarts(sid, Max(clock, tasks[tid].wake))
          /\ IsTask(tid, "start", "new") =>
               \A t \in Readings(clock) :
                 StartDelay(sessions[sid], t) <= 0 => ScheduledCallStarts(sid, t))

\* a session scheduled for later than its creation was started by its
\* start task, at the scheduled time or after it, with nobody else calling
StartedByItsTask ==
  \E sid \in Started :
    /\ sessions[sid].scheduled_start_time > 0
    /\ sessions[sid].start_time >= sessions[sid].scheduled_start_time
    /\ sessions[sid].start_task \in DOMAIN tasks
    /\ tasks[sessions[sid].start_task].pc = "done"
    /\ sessions[sid].pause_intervals = <<>>

\* the offset of the session at t, counting the pauses that were over by t
OffsetBy(session, t) ==
  LET over == SelectSeq(session.pause_intervals,
                        LAMBDA p : p.end # None /\ p.end <= t)
  IN MsBetween(t, session.start_time)
       - SumSeq([i \in DOMAIN over |-> MsBetween(over[i].end, over[i].start)])

\* the hour boundary k a pause task was armed for: the offset at its deadline
ArmedFor(session, task) == OffsetBy(session, task.wake) \div HOUR_MS

\* boundaries k >= 2 that leave more than 30 minutes of the file
LaterBoundaries(duration_ms) ==
  {k \in 2..(duration_ms \div HOUR_MS + 1) :
     duration_ms - k * HOUR_MS > THIRTY_MIN_MS}

\* C31: with automatic pauses and resumes only, a pause task is armed for
\* an hour boundary k >= 1 of the offset, and for k >= 2 only when more than
\* 30 minutes are left after it; the pause it makes begins at an offset of
\* k hours or more; each task is armed for a later boundary than the one
\* before it; and a session never has more pauses than it has such
\* boundaries
AutomaticPausesFollowBoundaries ==
  /\ [](\A tid \in DOMAIN tasks :
          IsTask(tid, "pause", "sleep") =>
            LET session == sessions[tasks[tid].sid]
                k == ArmedFor(session, tasks[tid]) IN
            /\ k >= 1
            /\ OffsetBy(session, tasks[tid].wake) = k * HOUR_MS
            /\ k >= 2 => session.duration_ms - k * HOUR_MS > THIRTY_MIN_MS)
  /\ [](\A sid \in DOMAIN sessions :
          Len(sessions[sid].pause_intervals)
            <= 1 + Cardinality(LaterBoundaries(sessions[sid].duration_ms)))
  /\ [][\A sid \in DOMAIN sessions :
          LET old == sessions[sid]
              new == sessions'[sid]
              n == Len(new.pause_intervals) IN
          /\ n > Len(old.pause_intervals) =>
               /\ IsTask(old.pause_task, "pause", "sleep")
               /\ CalculateOffset(old, new.pause_intervals[n].start)
                    >= ArmedFor(old, tasks[old.pause_task]) * HOUR_MS
          /\ (new.pause_task # old.pause_task /\ old.pause_task # None) =>
               ArmedFor(new, tasks'[new.pause_task])
                 > ArmedFor(old, tasks[old.pause_task])
       ]_vars

\* the second automatic pause of a session has begun, at the second hour
\* of its offset or later, and nothing is armed after it
SecondAutomaticPause ==
  \E sid \in DOMAIN sessions :
    LET session == sessions[sid] IN
    /\ Len(session.pause_intervals) = 2
    /\ session.pause_intervals[2].end # None
    /\ CalculateOffset(session, session.pause_intervals[2].end) >= 2 * HOUR_MS
    /\ \A tid \in DOMAIN tasks : ~Pending(tasks[tid])

\* the pause rule allows a pause for a session whose offset is elapsed_ms
RuleAllows(session, elapsed_ms) ==
  LET next_k == elapsed_ms \div HOUR_MS + 1 IN
  next_k = 1 \/ session.duration_ms - next_k * HOUR_MS > THIRTY_MIN_MS

\* the session has a pause task armed at t or later
ArmedSince(sid, t) ==
  /\ sessions[sid].pause_task \in DOMAIN tasks
  /\ tasks[sessions[sid].pause_task].wake >= t

\* C32: once start_session has set start_time the first automatic pause
\* is armed in the end, and once resume_session has closed the n-th
\* interval the next pause is armed in the end when the rule allows one,
\* whatever the sends of the fan-out do
PauseArmedDespiteBlockedSend ==
  \A sid \in SessionIds :
    /\ (sid \in DOMAIN sessions /\ sessions[sid].start_time # None)
         ~> (sid \in DOMAIN sessions /\ sessions[sid].pause_task # None)
    /\ \A n \in 1..MaxIntervals :
         (/\ sid \in DOMAIN sessions
          /\ Len(sessions[sid].pause_intervals) = n
          /\ ~LastOpen(sessions[sid])
          /\ sessions[sid].start_time # None
          /\ RuleAllows(sessions[sid],
                        CalculateOffset(sessions[sid],
                                        sessions[sid].pause_intervals[n].end)))
           ~> (/\ sid \in DOMAIN sessions
               /\ Len(sessions[sid].pause_intervals) >= n
               /\ ArmedSince(sid, sessions[sid].pause_intervals[n].end))

\* what an operation made of the pause intervals old: nothing removed or
\* reordered, no start changed, no end changed, at most one open interval
\* appended
OnlyAppended(old, new) ==
  /\ Len(new) \in {Len(old), Len(old) + 1}
  /\ SubSeq(new, 1, Len(old)) = old
  /\ Len(new) > Len(old) => new[Len(new)].end = None

\* what a resume made of them: the last interval, which was open, closed
\* at its start or later, everything else as it was
OnlyClosedLast(old, new) ==
  /\ old # <<>>
  /\ old[Len(old)].end = None
  /\ Len(new) = Len(old)
  /\ new = [old EXCEPT ![Len(old)].end = new[Len(old)].end]
  /\ new[Len(new)].end # None
  /\ new[Len(new)].end >= new[Len(new)].start

\* C33: pause_intervals is append-only.  Every step leaves the intervals
\* in their order with their starts, and changes the end of an interval
\* only from unset to a time not before its start; that change is the one
\* resume_session makes to an open last interval, and no other operation
\* (start_session, pause_session, add_participant, _schedule_next_pause,
\* stop_background_tasks) touches an interval that is there already
IntervalsAppendOnly ==
  /\ [][\A sid \in DOMAIN sessions :
          LET old == sessions[sid].pause_intervals
              new == sessions'[sid].pause_intervals IN
          OnlyAppended(old, new) \/ OnlyClosedLast(old, new)]_vars
  /\ [](\A sid \in DOMAIN sessions : \A live \in LiveSets :
        \A ta \in Readings(clock) : \A tb \in Readings(ta) : \A tc \in Readings(tb) :
          LET old == sessions[sid].pause_intervals
              After(e) == e.S[sid].pause_intervals IN
          /\ OnlyAppended(old, After(PauseSession(sessions, tasks, live, sid, ta)))
          /\ After(StartSession(sessions, tasks, live, sid, ta, tb, tc)) = old
          /\ After(StopBackgroundTasks(sessions, tasks)) = old
          /\ ScheduleNextPause(sessions, tasks, sid, ta).S[sid].pause_intervals = old
          /\ \A u \in Users : \A c \in AuthAnswers :
               After(AddStoreEffect(sessions, tasks, sid, u,
                                    ResolveDevice(c, "tv"), ta)) = old
          /\ LET new == After(ResumeSession(sessions, tasks, live, sid, ta, tb, tc))
             IN IF LastOpen(sessions[sid]) THEN OnlyClosedLast(old, new)
                ELSE new = old)

\* two pauses were closed by two resumes, the second after the first
TwoClosedIntervals ==
  \E sid \in DOMAIN sessions :
    LET p == sessions[sid].pause_intervals IN
    /\ Len(p) = 2
    /\ p[1].end # None /\ p[2].end # None
    /\ p[2].start >= p[1].end
    /\ p[2].end > p[1].end

\* no step of task tid can be taken
Halted(tid) ==
  /\ \A live \in LiveSets :
       /\ ~ENABLED RunStart(tid, live)
       /\ ~ENABLED WakeStart(tid, live)
       /\ ~ENABLED WakePause(tid, live)
       /\ ~ENABLED WakeResume(tid, live)
  /\ ~ENABLED ContinueTask(tid)

\* session sid of S but for its three task handles
SessionProper(S, sid) == Swept(S[sid])

\* C34: a cancellation changes the cancelled task and nothing else.  The
\* sweep of stop_background_tasks, whatever its tasks were doing (not yet
\* run, asleep, in a fan-out), leaves every session as it was but for the
\* handles, sends nothing and returns normally, and every task it has
\* cancelled is finished; pause_session cancelling the previous
\* auto-resume finishes that task, leaves the intervals that were there
\* as they were (an open one stays open), sends PAUSE only and touches no
\* other task; a finished or cancelled task takes no further step and is
\* never changed again
CancelledTaskDoesNothing ==
  /\ [](LET e == StopBackgroundTasks(sessions, tasks) IN
        /\ e.result = "-" /\ e.out = EmptyDict
        /\ \A sid \in DOMAIN sessions :
             SessionProper(e.S, sid) = SessionProper(sessions, sid)
        /\ \A i \in DOMAIN tasks :
             IF i \in Handles(sessions) THEN ~Pending(e.T[i])
             ELSE e.T[i] = tasks[i])
  /\ [](\A sid \in DOMAIN sessions : \A live \in LiveSets : \A t \in Readings(clock) :
          LET e == PauseSession(sessions, tasks, live, sid, t)
              old == sessions[sid]
              prev == old.resume_task IN
          /\ e.result = "-"
          /\ SubSeq(e.S[sid].pause_intervals, 1, Len(old.pause_intervals))
               = old.pause_intervals
          /\ \A u \in DOMAIN e.out : e.out[u].type = "pause"
          /\ [SessionProper(e.S, sid) EXCEPT !.pause_intervals = old.pause_intervals]
               = SessionProper(sessions, sid)
          /\ \A i \in DOMAIN tasks :
               IF i = prev THEN ~Pending(e.T[i]) ELSE e.T[i] = tasks[i])
  /\ [](\A tid \in DOMAIN tasks : ~Pending(tasks[tid]) => Halted(tid))
  /\ [][\A tid \in DOMAIN tasks :
          (~Pending(tasks[tid]) /\ tid \in DOMAIN tasks') => tasks'[tid] = tasks[tid]
       ]_vars

\* a second pause cancelled the auto-resume of the first one in its sleep:
\* both intervals are open and the only task left asleep for the session
\* is the auto-resume of the second pause
ResumeCancelledInSleep ==
  \E sid \in Started :
    LET p == sessions[sid].pause_intervals IN
    /\ Len(p) = 2
    /\ p[1].end = None /\ p[2].end = None
    /\ p[2].start > p[1].start
    /\ \A i \in DOMAIN tasks :
         (tasks[i].kind = "resume" /\ Pending(tasks[i])) =>
           /\ i = sessions[sid].resume_task
           /\ tasks[i].wake = p[2].start + PauseSeconds * 1000 * TicksPerMs
    /\ \E i \in DOMAIN tasks : tasks[i].kind = "resume" /\ Pending(tasks[i])

\* the step stored the participant of the suspended add_participant f
Stored(f) == f \in Frames /\ f.pc = "store" /\ calls' = Pop(f)

\* C35: however add_participant and start_session interleave, a joiner
\* gets the initial PLAY on exactly one path.  The store of an
\* add_participant before the start queues the username and sends
\* nothing; after the start it sends the catch-up PLAY to the joiner and
\* queues nothing.  A queued username is a participant, is queued once and
\* stays queued until the start; the step that sets start_time hands a
\* PLAY with offset 0 to exactly the queued usernames and empties the
\* queue, which stays empty from then on
OneInitialPlayPerJoin ==
  /\ [](\A sid \in DOMAIN sessions :
          LET q == sessions[sid].prequeue IN
          /\ Range(q) \subseteq DOMAIN sessions[sid].participants
          /\ Cardinality(Range(q)) = Len(q)
          /\ sessions[sid].start_time # None => q = <<>>)
  /\ [][\A f \in Frames :
          Stored(f) =>
            LET before == sessions[f.sid]
                after == sessions'[f.sid]
                u == f.username IN
            /\ u \in DOMAIN after.participants
            /\ IF before.start_time = None
               THEN /\ out' = EmptyDict
                    /\ u \in Range(after.prequeue)
               ELSE /\ DOMAIN out' = {u}
                    /\ out'[u] = WSCommand("play", CalculateOffset(after, clock'),
                                           after.filename, f.device)
                    /\ after.prequeue = <<>>
       ]_vars
  /\ [][\A sid \in DOMAIN sessions :
          LET before == sessions[sid]
              after == sessions'[sid] IN
          IF before.start_time = None /\ after.start_time # None
          THEN /\ DOMAIN out' = Range(before.prequeue)
               /\ \A u \in DOMAIN out' :
                    out'[u] = WSCommand("play", 0, before.filename,
                                        before.participants[u].device)
               /\ after.prequeue = <<>>
          ELSE after.start_time = None =>
                 Range(before.prequeue) \subseteq Range(after.prequeue)
       ]_vars

\* one participant was queued and got the PLAY of the start; the other
\* one was stored at the very reading of the clock at which the session
\* started and has just been caught up, with offset 0 as well
CaughtUpAtStartInstant ==
  \E sid \in Started : \E u \in Users :
    /\ Cardinality(DOMAIN sessions[sid].participants) = 2
    /\ sessions[sid].start_time = clock
    /\ sessions[sid].scheduled_start_time > 0
    /\ sessions[sid].pause_intervals = <<>>
    /\ DOMAIN out = {u}
    /\ out[u].type = "play" /\ out[u].offset = 0
    /\ calls = EmptyBag

\* the usernames that have an accepted websocket whose disconnect has not
\* been processed
Serving == {tasks[i].username : i \in {j \in Endpoints : tasks[j].pc = "serving"}}

\* C36: the registry has an entry for exactly the usernames that have an
\* accepted websocket not yet disconnected; in particular the disconnect
\* of a connection that was replaced by a newer one of the same user
\* leaves the entry of the newer one in place
RegistryMatchesSockets == DOMAIN connections = Serving

\* send_json was entered for the command of send task t
Entered(t) == t.pc \in {"write", "done", "failed"}

\* the send tasks a step created
Created == DOMAIN tasks' \ DOMAIN tasks

\* C37: on each Connection the PAUSE and PLAY commands of a session reach
\* send_json in the order in which pause_session and resume_session
\* changed the intervals: a step that changes the intervals creates the
\* send tasks of its command, PAUSE for an opened interval and PLAY for a
\* closed one, after those of every earlier change, and send_json is
\* entered for a command only when it has ended for every command
\* created earlier for the same Connection
DeliveredInMutationOrder ==
  /\ [](\A u \in Users : \A i \in SendsOn(tasks, u) : \A j \in SendsOn(tasks, u) :
          (i < j /\ Entered(tasks[j])) => Finished(tasks[i]))
  /\ [][\A sid \in DOMAIN sessions :
          sessions'[sid].pause_intervals # sessions[sid].pause_intervals =>
            /\ \A i \in Created :
                 /\ tasks'[i].cmd.type =
                      IF Len(sessions'[sid].pause_intervals)
                           > Len(sessions[sid].pause_intervals)
                      THEN "pause" ELSE "play"
                 /\ \A j \in DOMAIN tasks : j < i /\ tasks[j].batch < tasks'[i].batch
            /\ {tasks'[i].conn : i \in Created}
                 = DOMAIN sessions[sid].participants \cap DOMAIN connections
       ]_vars

\* the PAUSE of a pause is still being written to alice's socket while
\* the PLAY of the resume that closed it and the PAUSE of the following
\* pause wait for the lock of her Connection, in that order
PlayWaitsBehindPause ==
  /\ Len(sessions["s1"].pause_intervals) = 2
  /\ SendsOn(tasks, "alice") = {1, 2, 3}
  /\ tasks[1].cmd.type = "pause" /\ tasks[1].pc = "write"
  /\ tasks[2].cmd.type = "play" /\ tasks[2].pc = "wait" /\ tasks[2].ticket = 1
  /\ tasks[3].cmd.type = "pause" /\ tasks[3].pc = "wait" /\ tasks[3].ticket = 2

\* the coroutines that wait for a lock
LockWaiters == {f \in Frames : f.st = "waiting" /\ NestAt(f).kind = "acquire"}

\* C38: a coroutine that comes to take a lock, the session lock, the
\* registry lock or the lock of a Connection, holds no lock, so none
\* waits for a lock while it holds another; a lock somebody waits for is
\* held by a coroutine that is in send_json or has just come back from
\* it, and whenever coroutines exist one of them runs or can be run
NoHoldAndWait ==
  /\ \A f \in Frames : NestAt(f).kind = "acquire" => f.holds = {}
  /\ \A f \in LockWaiters :
       \A g \in Frames : NestAt(f).arg \in g.holds =>
         g.st = "running" \/ NestAt(g).kind = "send_json"
  /\ Frames # {} =>
       \E f \in Frames :
         f.st = "running" \/ f \notin LockWaiters \/ Free(NestAt(f).arg)

\* a send_command waits for the lock of the Connection, holding nothing,
\* while another one holds it in send_json
SendWaitsForConnection ==
  \E f \in LockWaiters : \E g \in Frames :
    /\ f.op = "send_command" /\ NestAt(f).arg = "connection"
    /\ g.holds = {"connection"} /\ NestAt(g).kind = "send_json"

\* C39: while the latest PauseInterval of a started session is closed, or
\* the session has none, its offset advances with the wall clock: between
\* two probe times a whole number of milliseconds apart it grows by that
\* number, also after pause_session was called before the start or twice
\* in a row
OffsetAdvancesWhileUnpaused ==
  \A sid \in Started :
    ~LastOpen(sessions[sid]) =>
      \A t1 \in ProbeTimes : \A t2 \in ProbeTimes :
        (t1 < t2 /\ (t2 - t1) % TicksPerMs = 0) =>
          CalculateOffset(sessions[sid], t2) - CalculateOffset(sessions[sid], t1)
            = MsBetween(t2, t1)

\* what start_session, pause_session and resume_session called on session
\* A in this state leave behind
EffectsOn(A) ==
  {StartSession(sessions, tasks, Live(connections), A, clock, clock, clock),
   PauseSession(sessions, tasks, Live(connections), A, clock),
   ResumeSession(sessions, tasks, Live(connections), A, clock, clock, clock)}

\* C40: start_session, pause_session and resume_session on session A leave
\* every other session as it is, its start_time, pause_intervals,
\* participants, prequeue and task handles included, and the tasks of the
\* other sessions too; the commands go to participants of A only, and the
\* tasks created belong to A
OtherSessionsUntouched ==
  \A A \in DOMAIN sessions : \A e \in EffectsOn(A) :
    /\ DOMAIN e.S = DOMAIN sessions
    /\ \A B \in DOMAIN sessions \ {A} : e.S[B] = sessions[B]
    /\ DOMAIN e.out \subseteq DOMAIN sessions[A].participants
    /\ \A u \in DOMAIN e.out : e.out[u].device = sessions[A].participants[u].device
    /\ \A i \in DOMAIN tasks : tasks[i].sid # A => e.T[i] = tasks[i]
    /\ \A i \in DOMAIN e.T \ DOMAIN tasks : e.T[i].sid = A

\* both sessions were started; the second one, with alice and bob, is in a
\* pause and its auto-resume is pending; the first one, with alice alone,
\* has just been paused, and the PAUSE went to alice only although bob is
\* connected too
PausedBesidePaused ==
  /\ DOMAIN sessions = {"s1", "s2"}
  /\ sessions["s1"].start_time # None /\ sessions["s2"].start_time # None
  /\ DOMAIN sessions["s1"].participants = {"alice"}
  /\ DOMAIN sessions["s2"].participants = {"alice", "bob"}
  /\ LastOpen(sessions["s1"]) /\ LastOpen(sessions["s2"])
  /\ PendingResumes(tasks, "s2") # {}
  /\ DOMAIN connections = {"alice", "bob"}
  /\ DOMAIN out = {"alice"}
  /\ out["alice"].type = "pause"

====
